---- MODULE Spec2Model ----
(***************************************************************************)
(* A model of nglscenes: layers, the layer manager and scenes              *)
(* (nglscenes/layers.py, nglscenes/scenes.py) and the scene that is synced *)
(* to a neuroglancer viewer (nglscenes/local.py).                          *)
(*                                                                         *)
(* Ten specifications share the module:                                    *)
(*   SpecScene    a plain Scene under add_layers, drop_layer and writes to *)
(*                a held layer's name.                                     *)
(*   SpecCombine  a program that builds a plain Scene with add_layers and  *)
(*                writes to a held layer's name, and ends by evaluating    *)
(*                scene + other or scene | other.                          *)
(*   Spec         one LocalScene, its layers, the viewer's state document    *)
(*                and the BundleUpdates context manager.                   *)
(*   SpecLayer    one layer that is linked to no viewer.                   *)
(*   SpecCopy     copy.deepcopy of a layer, a Scene and a LocalScene.      *)
(*   SpecSync     the layers of a LocalScene, pushed to and pulled from a  *)
(*                viewer's document that another writer changes too.       *)
(*   SpecObs      an observable container (nglscenes/utils.py) under the   *)
(*                calls that change it.                                    *)
(*   SpecParse    a Scene written with to_json and make_url and read back  *)
(*                with from_string; parse_layers (nglscenes/scenes.py).    *)
(*   SpecOwn      the layers of a LocalScene that is the only writer on    *)
(*                the viewer's document.                                   *)
(*   SpecAdd      add_layers on layer objects with an identity, its while  *)
(*                loop taken one pass at a time.                           *)
(* Each specification leaves the variables of the others at their initial  *)
(* value.                                                                  *)
(***************************************************************************)
EXTENDS Integers, Sequences, FiniteSets, TLC

VARIABLES
    sceneLayers, \* a plain Scene: Scene._layers, the sequence of layers it holds
    renamed,    \* a plain Scene: a held layer's name was written after its insertion
    ret,        \* a plain Scene: what the last call returned
    op,         \* a plain Scene: the last call: its name, its arguments (by
                \* name or by index for drop_layer), its exception
    viewer,     \* the viewer's state document: its scene-level keys and its layer records
    scene,      \* the LocalScene: _state, _lock, _auto_sync
    localLayers, \* LocalScene._layers: each layer's class, _state, _lock, and whether _viewer is set
    depth,      \* the number of "with BundleUpdates(scene):" bodies the program is in
    dropped,    \* the layer LocalScene.drop_layer returned last, if any
    calls,      \* the number of calls made on the LocalScene and its viewer
    ev,         \* the last call on the LocalScene and how it ended
    theLayer,   \* SpecLayer: the layer the program holds, linked to no viewer
    layerEv,    \* SpecLayer: the last call on that layer and how it ended
    orig,       \* SpecCopy: the scene or layer the program made
    twin,       \* SpecCopy: its copy.deepcopy
    copyEv,     \* SpecCopy: the last call and the callbacks it ran
    given,      \* SpecObs: the structure last passed to add_on_change_callback
    box,        \* SpecObs: the observable container the program holds
    back,       \* SpecObs: what remove_callback returned last
    obsEv,      \* SpecObs: the last call on a container and how it ended
    built,      \* SpecParse: the scene the program built last
    parsed,     \* SpecParse: what the last from_string or parse_layers call gave
    parseEv,    \* SpecParse: the last call and its arguments
    objs,       \* SpecAdd: the layer objects the program made, by identity
    held,       \* SpecAdd: Scene._layers, the identities of the layers held
    adding      \* SpecAdd: the add_layers call in progress: its loop variables

sceneVars == <<sceneLayers, renamed, ret, op>>

localVars == <<viewer, scene, localLayers, depth, dropped, calls, ev>>

layerVars == <<theLayer, layerEv>>

copyVars == <<orig, twin, copyEv>>

obsVars == <<given, box, back, obsEv>>

parseVars == <<built, parsed, parseEv>>

addVars == <<objs, held, adding>>

vars == <<sceneVars, localVars, layerVars, copyVars, obsVars, parseVars, addVars>>

\* What the actions of one specification leave alone.
restOfScene == <<localVars, layerVars, copyVars, obsVars, parseVars, addVars>>

restOfLocal == <<sceneVars, layerVars, copyVars, obsVars, parseVars, addVars>>

restOfLayer == <<sceneVars, localVars, copyVars, obsVars, parseVars, addVars>>

restOfCopy == <<sceneVars, localVars, layerVars, obsVars, parseVars, addVars>>

restOfObs == <<sceneVars, localVars, layerVars, copyVars, parseVars, addVars>>

restOfParse == <<sceneVars, localVars, layerVars, copyVars, obsVars, addVars>>

restOfAdd == <<sceneVars, localVars, layerVars, copyVars, obsVars, parseVars>>

(***************************************************************************)
(* Bounds of the model.                                                    *)
(***************************************************************************)
MaxLayers == 3      \* SpecScene: layers the scene is grown to
MaxLeft == 2        \* SpecCombine: layers the left operand is grown to
MaxLocal == 2       \* Spec: layers the LocalScene is grown to
MaxCalls == 5       \* Spec, SpecSync: calls the program makes
MaxDepth == 2       \* Spec: with statements nested in one another
MaxItems == 2       \* SpecObs: items a container is grown to
MaxOps == 2         \* SpecObs: calls made on a container after it is wrapped
MaxRemote == 3      \* SpecSync: records another writer grows the document to
MaxHeld == 3        \* SpecAdd: layers the scene is grown to
MaxAdds == 2        \* SpecAdd: add_layers calls the program makes
MaxSuffix == 5      \* SpecAdd: the largest suffix the while loop of add_layers tries

(***************************************************************************)
(* Values.                                                                 *)
(***************************************************************************)
None == "None"

\* d with key k set to v (dict.__setitem__ on a plain dict).
DictSet(d, k, v) == [x \in (DOMAIN d) \cup {k} |-> IF x = k THEN v ELSE d[x]]

\* dict.update(other): other's keys win.
DictUpdate(d, other) ==
    [x \in (DOMAIN d) \cup (DOMAIN other) |-> IF x \in DOMAIN other THEN other[x] ELSE d[x]]

\* dict.get(k, None)
DictGet(d, k) == IF k \in DOMAIN d THEN d[k] ELSE None

SeqToSet(s) == {s[i] : i \in DOMAIN s}

\* list.insert(index, x) for 0 <= index; an index past the end appends.
ListInsert(s, index, x) ==
    IF index >= Len(s) THEN Append(s, x)
    ELSE SubSeq(s, 1, index) \o <<x>> \o SubSeq(s, index + 1, Len(s))

\* list.pop(ix) for 0 <= ix < len: the list without element ix (0-based).
ListWithout(s, ix) == SubSeq(s, 1, ix) \o SubSeq(s, ix + 2, Len(s))

\* The value of a layer's "segments" key: its Python type and its items.
\* An item is a string: "1" is the Python string '1', "int:1" the Python
\* integer 1.  An int or a str holds one item.
PyList(items) == [py |-> "list", items |-> items]

PyTuple(items) == [py |-> "tuple", items |-> items]

PyArray(items) == [py |-> "ndarray", items |-> items]

PyInt(item) == [py |-> "int", items |-> <<item>>]

PyStr(item) == [py |-> "str", items |-> <<item>>]

\* str(x) of an item: the numeral of an integer, a string itself.
Str(x) ==
    CASE x = "int:1" -> "1"
      [] x = "int:2" -> "2"
      [] x = "int:3" -> "3"
      [] OTHER -> x

(***************************************************************************)
(* Layer classes.  Parent gives the class a concrete class derives from.   *)
(***************************************************************************)
LayerTypes ==
    {"ImageLayer", "SegmentationLayer", "AnnotationLayer", "MeshLayer",
     "FlyWireSegmentationLayer"}

Parent(t) ==
    IF t = "FlyWireSegmentationLayer" THEN "SegmentationLayer" ELSE "BaseLayer"

\* isinstance(l, cls) for a layer of concrete class t.
RECURSIVE IsInstance(_, _)
IsInstance(t, cls) ==
    IF t = cls THEN TRUE
    ELSE IF t = "BaseLayer" THEN FALSE
    ELSE IsInstance(Parent(t), cls)

\* The class whose __or__ a layer of class t inherits.
OrImpl(t) ==
    IF IsInstance(t, "ImageLayer") THEN "ImageLayer"
    ELSE IF IsInstance(t, "SegmentationLayer") THEN "SegmentationLayer"
    ELSE "BaseLayer"

(***************************************************************************)
(* Layer constructors: DEFAULTS, then source, then the keyword arguments.  *)
(***************************************************************************)
ImageDefaults ==
    [source |-> "", type |-> "image", blend |-> "default",
     shaderControls |-> <<>>, name |-> "img"]

SegmentationDefaults ==
    [source |-> "", type |-> "segmentation", selectedAlpha |-> "0.14",
     segments |-> PyList(<<>>), name |-> "segmentation"]

AnnotationDefaults == [source |-> "", type |-> "annotation", name |-> "annotations"]

MeshDefaults == [source |-> "", type |-> "mesh", name |-> "meshes"]

ImageLayer(source, kwargs) ==
    [type |-> "ImageLayer",
     state |-> DictUpdate(DictSet(ImageDefaults, "source", source), kwargs)]

SegmentationLayer(source, kwargs) ==
    [type |-> "SegmentationLayer",
     state |-> DictUpdate(DictSet(SegmentationDefaults, "source", source), kwargs)]

AnnotationLayer(source, kwargs) ==
    [type |-> "AnnotationLayer",
     state |-> DictUpdate(DictSet(AnnotationDefaults, "source", source), kwargs)]

MeshLayer(source, kwargs) ==
    [type |-> "MeshLayer",
     state |-> DictUpdate(DictSet(MeshDefaults, "source", source), kwargs)]

\* FlyWireSegmentationLayer(name=..., **kwargs): a SegmentationLayer subclass
\* with a fixed source.
FlyWireSource == "graphene://middleauth+https://prod.flywire-daf.com/segmentation/1.0/fly_v31"

FlyWireSegmentationLayer(kwargs) ==
    [type |-> "FlyWireSegmentationLayer",
     state |-> DictUpdate(DictSet(SegmentationDefaults, "source", FlyWireSource),
                          DictUpdate([name |-> "flywire_production"], kwargs))]

\* BaseLayer.name
LayerName(l) == l.state["name"]

\* STATE_CONVERSION[name][type(value)](value) where the class of the layer
\* has an entry for the key and the type of the value, else the value.
\* Only SegmentationLayer and its subclasses declare conversions; the ones
\* for segmentColors and segmentDefaultColor are outside the model.
StateConversion(t, name, value) ==
    IF ~IsInstance(t, "SegmentationLayer") \/ name # "segments" THEN value
    ELSE CASE value.py = "int" -> PyList(<<Str(value.items[1])>>)
           [] value.py = "str" -> PyList(<<value.items[1]>>)
           [] value.py = "list" -> PyList([i \in DOMAIN value.items |-> Str(value.items[i])])
           [] value.py = "ndarray" -> PyList([i \in DOMAIN value.items |-> Str(value.items[i])])
           [] OTHER -> value

\* BaseLayer.__setitem__ on a layer that is linked to no viewer.
LayerSetItem(l, k, v) ==
    [l EXCEPT !.state = DictSet(l.state, k, StateConversion(l.type, k, v))]

(***************************************************************************)
(* layer | layer                                                           *)
(***************************************************************************)
\* Every list that holds each element of S exactly once: list(set(...)),
\* whose order Python leaves to the hash seed.
ListsOfSet(S) ==
    {s \in [1..Cardinality(S) -> S] : \A i, j \in 1..Cardinality(S) : s[i] = s[j] => i = j}

\* LayerOrOutcome with isinstance(other, type(self)) in the place of
\* type(other) is not type(self): a layer of a subclass is merged.
LayerOrOutcomeIsInstance(self, other) ==
    IF OrImpl(self.type) = "BaseLayer" THEN "NotImplementedError"
    ELSE IF ~IsInstance(other.type, self.type) THEN "NotImplementedError"
    ELSE IF "source" \notin DOMAIN self.state \/ "source" \notin DOMAIN other.state
        THEN "AttributeError"
    ELSE IF self.state["source"] # other.state["source"] THEN "NotImplementedError"
    ELSE IF OrImpl(self.type) = "SegmentationLayer"
            /\ ("segments" \notin DOMAIN self.state \/ "segments" \notin DOMAIN other.state)
        THEN "AttributeError"
    ELSE "ok"

\* How self.__or__(other) ends: "ok", or the exception it raises.
\* self['source'] raises AttributeError for a key that is not in the state.
LayerOrOutcome(self, other) ==
    IF OrImpl(self.type) = "BaseLayer" THEN "NotImplementedError"
    ELSE IF other.type # self.type THEN "NotImplementedError"
    ELSE IF "source" \notin DOMAIN self.state \/ "source" \notin DOMAIN other.state
        THEN "AttributeError"
    ELSE IF self.state["source"] # other.state["source"] THEN "NotImplementedError"
    ELSE IF OrImpl(self.type) = "SegmentationLayer"
            /\ ("segments" \notin DOMAIN self.state \/ "segments" \notin DOMAIN other.state)
        THEN "AttributeError"
    ELSE "ok"

\* ImageLayer.__or__: a copy of self, its state updated with other's.
ImageOr(self, other) == [self EXCEPT !.state = DictUpdate(self.state, other.state)]

\* SegmentationLayer.__or__: the copies of self whose segments are
\* list(set(self.segments + other.segments)), one per order of the set.
SegmentationOr(self, other) ==
    {LayerSetItem(self, "segments", PyList(segs)) :
        segs \in ListsOfSet(SeqToSet(self.state["segments"].items
                                         \o other.state["segments"].items))}

\* The layers self | other may return when LayerOrOutcome is "ok".
LayerOr(self, other) ==
    IF OrImpl(self.type) = "ImageLayer" THEN {ImageOr(self, other)}
    ELSE SegmentationOr(self, other)

(***************************************************************************)
(* LayerManager                                                            *)
(***************************************************************************)
\* get_layer(name): the held layers whose _state.get('name') is name.
LayersNamed(layers, name) ==
    {i \in DOMAIN layers : DictGet(layers[i].state, "name") = name}

\* LayerManager.__contains__: get_layer raises AttributeError for no match
\* and for more than one match, and __contains__ turns either into False.
Contains(layers, name) == Cardinality(LayersNamed(layers, name)) = 1

(***************************************************************************)
(* Scene.add_layers                                                        *)
(***************************************************************************)
\* "{org_name}-{i}"
Suffixed(org, i) == org \o "-" \o ToString(i)

\* UniqueName with an if in the place of the while: the first suffixed name
\* is taken without a second look at the manager.
UniqueNameOnce(layers, org, cur, i) ==
    IF Contains(layers, cur) THEN Suffixed(org, i) ELSE cur

\* The while loop of add_layers: the name the incoming layer ends with.
RECURSIVE UniqueName(_, _, _, _)
UniqueName(layers, org, cur, i) ==
    IF Contains(layers, cur) THEN UniqueName(layers, org, Suffixed(org, i), i + 1)
    ELSE cur

\* The index argument: NoIndex for None, <<n>> for the int n.
NoIndex == <<>>

\* One pass of the for loop: rename l if its name is taken, then append it
\* (index None) or insert it at index.
AddOne(layers, l, index) ==
    LET named == LayerSetItem(l, "name", UniqueName(layers, LayerName(l), LayerName(l), 2))
    IN  IF index = NoIndex THEN Append(layers, named)
        ELSE ListInsert(layers, index[1], named)

\* add_layers(*new, index=index)
RECURSIVE AddLayersTo(_, _, _)
AddLayersTo(layers, new, index) ==
    IF new = <<>> THEN layers
    ELSE AddLayersTo(AddOne(layers, Head(new), index), Tail(new),
                     IF index = NoIndex THEN NoIndex ELSE <<index[1] + 1>>)

(***************************************************************************)
(* Scene.__add__ and Scene.__or__                                          *)
(***************************************************************************)
\* self + other: a deep copy of self with deep copies of other's layers added.
SceneAdd(self, other) == AddLayersTo(self, other, NoIndex)

\* The inner loop of __or__ from x.layers[i] on: "merged" (a layer l2 with
\* isinstance(l1, type(l2)) took l2 |= l1, which rebinds the loop variable l2
\* and leaves x._layers as it is), "append" (no such layer), or the exception
\* that is not a NotImplementedError and is raised again.
RECURSIVE MergeInto(_, _, _)
MergeInto(xs, l1, i) ==
    IF i > Len(xs) THEN "append"
    ELSE IF ~IsInstance(l1.type, xs[i].type) THEN MergeInto(xs, l1, i + 1)
    ELSE IF LayerOrOutcome(xs[i], l1) = "ok" THEN "merged"
    ELSE IF LayerOrOutcome(xs[i], l1) = "NotImplementedError" THEN MergeInto(xs, l1, i + 1)
    ELSE LayerOrOutcome(xs[i], l1)

\* self | other: [layers, exc]; layers is x._layers when the loop over
\* other's layers (from the rest on) has ended, exc the exception raised.
RECURSIVE SceneOrFrom(_, _)
SceneOrFrom(xs, rest) ==
    IF rest = <<>> THEN [layers |-> xs, exc |-> None]
    ELSE LET how == MergeInto(xs, Head(rest), 1)
         IN  IF how = "merged" THEN SceneOrFrom(xs, Tail(rest))
             ELSE IF how = "append"
                 THEN SceneOrFrom(AddLayersTo(xs, <<Head(rest)>>, NoIndex), Tail(rest))
             ELSE [layers |-> xs, exc |-> how]

SceneOr(self, other) == SceneOrFrom(self, other)

(***************************************************************************)
(* The viewer and the layers a LocalScene holds                            *)
(***************************************************************************)
\* A layer as a LocalScene takes it: _lock is not set, _viewer is None
\* (linked), and _state is a plain dict with no push_state callback (wrapped).
LocalLayer(l) ==
    [type |-> l.type, state |-> l.state, lock |-> FALSE, linked |-> FALSE,
     wrapped |-> FALSE]

\* LocalSkeletonLayer(source, **kwargs)
LocalSkeletonDefaults == [source |-> "", type |-> "segmentation", name |-> "skeletons"]

LocalSkeletonLayer(source, kwargs) ==
    [type |-> "LocalSkeletonLayer",
     state |-> DictUpdate(DictSet(LocalSkeletonDefaults, "source", source), kwargs)]

\* PushedState for a push_state that takes every key of _state.
PushedStateAll(l) == l.state

\* What push_state writes onto the record: the layer's _state, which
\* LocalSkeletonLayer.push_state takes without its source.
PushedState(l) ==
    IF IsInstance(l.type, "LocalSkeletonLayer")
    THEN [k \in (DOMAIN l.state) \ {"source"} |-> l.state[k]]
    ELSE l.state

\* The records of the viewer's document whose name is name.
RemoteNamed(v, name) == {i \in DOMAIN v.layers : DictGet(v.layers[i], "name") = name}

\* LayerPushState without the "if self._lock: return" it starts with.
LayerPushStateNoLock(l, v, ok) ==
    IF ~l.linked
        THEN [viewer |-> v, exc |-> "ValueError", writes |-> 0, locked |-> FALSE]
    ELSE IF Cardinality(RemoteNamed(v, LayerName(l))) # 1
        THEN [viewer |-> v, exc |-> "ValueError", writes |-> 0, locked |-> FALSE]
    ELSE LET ix == CHOOSE i \in RemoteNamed(v, LayerName(l)) : TRUE
         IN  IF ok
             THEN [viewer |-> [v EXCEPT !.layers[ix] = DictUpdate(@, PushedState(l))],
                   exc |-> None, writes |-> 1, locked |-> l.lock]
             ELSE [viewer |-> v, exc |-> "RemoteError", writes |-> 0, locked |-> l.lock]

\* BaseLayer.push_state against the document v; ok says whether
\* viewer.set_state goes through.  The result: the document afterwards, the
\* exception raised, the number of set_state calls that went through, and
\* whether set_state was called while the layer's _lock was set.
LayerPushState(l, v, ok) ==
    IF l.lock THEN [viewer |-> v, exc |-> None, writes |-> 0, locked |-> FALSE]
    ELSE IF ~l.linked
        THEN [viewer |-> v, exc |-> "ValueError", writes |-> 0, locked |-> FALSE]
    ELSE IF Cardinality(RemoteNamed(v, LayerName(l))) # 1
        THEN [viewer |-> v, exc |-> "ValueError", writes |-> 0, locked |-> FALSE]
    ELSE LET ix == CHOOSE i \in RemoteNamed(v, LayerName(l)) : TRUE
         IN  IF ok
             THEN [viewer |-> [v EXCEPT !.layers[ix] = DictUpdate(@, PushedState(l))],
                   exc |-> None, writes |-> 1, locked |-> l.lock]
             ELSE [viewer |-> v, exc |-> "RemoteError", writes |-> 0, locked |-> l.lock]

\* LayerPullState without the test for more than one record of the name:
\* the first one is taken.
LayerPullStateFirst(l, v) ==
    IF l.lock THEN [layer |-> l, exc |-> None]
    ELSE IF ~l.linked THEN [layer |-> l, exc |-> "ValueError"]
    ELSE IF RemoteNamed(v, LayerName(l)) = {}
        THEN [layer |-> l, exc |-> "ValueError"]
    ELSE LET ix == CHOOSE i \in RemoteNamed(v, LayerName(l)) :
                       \A j \in RemoteNamed(v, LayerName(l)) : i <= j
         IN  [layer |-> [l EXCEPT !.state = v.layers[ix], !.wrapped = l.linked],
              exc |-> None]

\* LayerPullState with "self._state = layer[0]" in the place of
\* "self.state = layer[0]": the record is stored without the callback.
LayerPullStatePlain(l, v) ==
    IF l.lock THEN [layer |-> l, exc |-> None]
    ELSE IF ~l.linked THEN [layer |-> l, exc |-> "ValueError"]
    ELSE IF Cardinality(RemoteNamed(v, LayerName(l))) # 1
        THEN [layer |-> l, exc |-> "ValueError"]
    ELSE LET ix == CHOOSE i \in RemoteNamed(v, LayerName(l)) : TRUE
         IN  [layer |-> [l EXCEPT !.state = v.layers[ix], !.wrapped = FALSE],
              exc |-> None]

\* BaseLayer.pull_state: the layer afterwards and the exception raised.  The
\* state setter wraps the record with the push_state callback, the layer
\* being linked.
LayerPullState(l, v) ==
    IF l.lock THEN [layer |-> l, exc |-> None]
    ELSE IF ~l.linked THEN [layer |-> l, exc |-> "ValueError"]
    ELSE IF Cardinality(RemoteNamed(v, LayerName(l))) # 1
        THEN [layer |-> l, exc |-> "ValueError"]
    ELSE LET ix == CHOOSE i \in RemoteNamed(v, LayerName(l)) : TRUE
         IN  [layer |-> [l EXCEPT !.state = v.layers[ix], !.wrapped = l.linked],
              exc |-> None]

\* HeldSetItem with the callback run before the write: the state pushed is
\* the one before the call.
HeldSetItemPushFirst(l, k, val, v) ==
    LET written == LayerSetItem(l, k, val)
    IN  IF l.wrapped THEN [layer |-> written] @@ LayerPushState(l, v, TRUE)
        ELSE [layer |-> written, viewer |-> v, exc |-> None, writes |-> 0,
              locked |-> FALSE]

\* BaseLayer.__setitem__ on a held layer: the write to _state and, for a
\* state that carries the callback, the push_state its CallBackDict calls.
HeldSetItem(l, k, val, v) ==
    LET written == LayerSetItem(l, k, val)
    IN  IF l.wrapped THEN [layer |-> written] @@ LayerPushState(written, v, TRUE)
        ELSE [layer |-> written, viewer |-> v, exc |-> None, writes |-> 0,
              locked |-> FALSE]

\* LinkViewer that stores the viewer before it looks for the name.
LinkViewerEager(l, v) ==
    IF RemoteNamed(v, LayerName(l)) # {}
    THEN [layer |-> [l EXCEPT !.linked = TRUE], viewer |-> v, exc |-> "ValueError",
          writes |-> 0, locked |-> FALSE]
    ELSE LET linked == [l EXCEPT !.linked = TRUE, !.wrapped = TRUE]
             added == [v EXCEPT !.layers =
                          Append(@, [name |-> LayerName(l), source |-> l.state["source"]])]
             r == LayerPushState(linked, added, TRUE)
         IN  [layer |-> linked, viewer |-> r.viewer, exc |-> r.exc,
              writes |-> r.writes + 1, locked |-> r.locked]

\* BaseLayer.link_viewer: it raises for a name the viewer has; else the
\* transaction adds a record with the layer's name and source, _viewer is
\* set, the state is wrapped with the push_state callback, and the layer is
\* pushed.
LinkViewer(l, v) ==
    IF RemoteNamed(v, LayerName(l)) # {}
    THEN [layer |-> l, viewer |-> v, exc |-> "ValueError", writes |-> 0, locked |-> FALSE]
    ELSE LET linked == [l EXCEPT !.linked = TRUE, !.wrapped = TRUE]
             added == [v EXCEPT !.layers =
                          Append(@, [name |-> LayerName(l), source |-> l.state["source"]])]
             r == LayerPushState(linked, added, TRUE)
         IN  [layer |-> linked, viewer |-> r.viewer, exc |-> r.exc,
              writes |-> r.writes + 1, locked |-> r.locked]

(***************************************************************************)
(* LocalScene.push_state and LocalScene.pull_state                         *)
(***************************************************************************)
\* push_state(exclude_layers=True, ignore_lock=ignore_lock)
ScenePushOwn(sc, v, ignore_lock, ok) ==
    IF sc.lock /\ ~ignore_lock
        THEN [viewer |-> v, exc |-> None, writes |-> 0, locked |-> FALSE]
    ELSE IF ok
        THEN [viewer |-> [v EXCEPT !.state = DictUpdate(@, sc.state)],
              exc |-> None, writes |-> 1, locked |-> sc.lock]
    ELSE [viewer |-> v, exc |-> "RemoteError", writes |-> 0, locked |-> sc.lock]

\* pull_state(): _state.update(...) and, with auto_sync, the push_state the
\* CallBackDict calls after the update.
ScenePullState(sc, v) ==
    IF sc.lock
        THEN [scene |-> sc, viewer |-> v, exc |-> None, writes |-> 0, locked |-> FALSE]
    ELSE LET pulled == [sc EXCEPT !.state = DictUpdate(@, v.state)]
         IN  IF sc.auto_sync
             THEN [scene |-> pulled] @@ ScenePushOwn(pulled, v, FALSE, TRUE)
             ELSE [scene |-> pulled, viewer |-> v, exc |-> None, writes |-> 0,
                   locked |-> FALSE]

\* [l.as_dict() for l in self.layers] from layer i on: reading the state of
\* a linked layer pulls it.
RECURSIVE LayersAsDict(_, _, _)
LayersAsDict(ls, v, i) ==
    IF i > Len(ls) THEN [layers |-> ls, exc |-> None]
    ELSE LET r == IF ls[i].linked THEN LayerPullState(ls[i], v)
                  ELSE [layer |-> ls[i], exc |-> None]
         IN  IF r.exc # None THEN [layers |-> ls, exc |-> r.exc]
             ELSE LayersAsDict([ls EXCEPT ![i] = r.layer], v, i + 1)

\* push_state(exclude_layers, ignore_lock): with exclude_layers=False the
\* document read first is updated with as_dict(), which reads the scene's
\* state (a pull) and every layer's state, and is then set.
ScenePushState(sc, ls, v, exclude_layers, ignore_lock, ok) ==
    IF sc.lock /\ ~ignore_lock
        THEN [scene |-> sc, layers |-> ls, viewer |-> v, exc |-> None, writes |-> 0,
              locked |-> FALSE]
    ELSE IF exclude_layers
        THEN [scene |-> sc, layers |-> ls] @@ ScenePushOwn(sc, v, ignore_lock, ok)
    ELSE LET p == ScenePullState(sc, v)
             a == LayersAsDict(ls, p.viewer, 1)
             doc == [state |-> DictUpdate(v.state, p.scene.state),
                     layers |-> [i \in DOMAIN a.layers |-> a.layers[i].state]]
         IN  IF p.exc # None
                 THEN [scene |-> p.scene, layers |-> ls, viewer |-> p.viewer,
                       exc |-> p.exc, writes |-> p.writes, locked |-> p.locked]
             ELSE IF a.exc # None
                 THEN [scene |-> p.scene, layers |-> a.layers, viewer |-> p.viewer,
                       exc |-> a.exc, writes |-> p.writes, locked |-> p.locked]
             ELSE IF ok
                 THEN [scene |-> p.scene, layers |-> a.layers, viewer |-> doc,
                       exc |-> None, writes |-> p.writes + 1,
                       locked |-> p.locked \/ sc.lock]
             ELSE [scene |-> p.scene, layers |-> a.layers, viewer |-> p.viewer,
                   exc |-> "RemoteError", writes |-> p.writes,
                   locked |-> p.locked \/ sc.lock]

(***************************************************************************)
(* Spec: a LocalScene, its viewer and BundleUpdates.                       *)
(***************************************************************************)
\* The layers the LocalScene is given.
LocalSamples == {ImageLayer("s1", <<>>), AnnotationLayer("s1", [name |-> "x"])}

\* The key and value pairs written to a held layer.
LayerWrites == {<<"blend", "additive">>, <<"name", "x">>}

\* The fields another writer sets in a layer record of the viewer's document:
\* one no layer holds before it pulls, and one every image layer holds.
RemoteWrites == {<<"opacity", "0.5">>, <<"blend", "multiply">>}

\* The program is in the body of a "with BundleUpdates(scene):".
inScope == depth > 0

\* The last call: its name, the layer it was made on (0: the scene), whether
\* it was made in the body of the with statement, the exception the body
\* ended with and the one the exit's push_state raised (exit only), the
\* exception that reached the caller, the number of viewer.set_state calls
\* that went through, whether one was made by a locked scene or layer, and
\* the field written (writes to a layer or to a layer record only).
Event(name, target, body, push, exc, writes, locked) ==
    [op |-> name, target |-> target, scoped |-> inScope, body |-> body,
     push |-> push, exc |-> exc, writes |-> writes, locked |-> locked,
     key |-> None]

\* LocalScene(auto_sync=auto) and its viewer, spawned with an empty document.
InitLocal(auto) ==
    /\ viewer = [state |-> <<>>, layers |-> <<>>]
    /\ scene = [state |-> <<>>, lock |-> FALSE, auto_sync |-> auto]
    /\ localLayers = <<>>
    /\ depth = 0
    /\ dropped = <<>>
    /\ calls = 0
    /\ ev = [op |-> "init", target |-> 0, scoped |-> FALSE, body |-> None,
             push |-> None, exc |-> None, writes |-> 0, locked |-> FALSE,
             key |-> None]

\* scene.add_layers(l): Scene.add_layers, which appends the layer under a
\* name no held layer has, then link_viewer; when link_viewer raises, the
\* layer stays in the scene.
LocalAddLayers(l) ==
    /\ Len(localLayers) < MaxLocal
    /\ LET named == LayerSetItem(LocalLayer(l), "name",
                        UniqueName(localLayers, LayerName(l), LayerName(l), 2))
           r == LinkViewer(named, viewer)
       IN  /\ localLayers' = Append(localLayers, r.layer)
           /\ viewer' = r.viewer
           /\ ev' = Event("add_layers", Len(localLayers) + 1, None, None, r.exc,
                          r.writes, r.locked)
    /\ UNCHANGED <<scene, depth>>
    /\ UNCHANGED dropped
    /\ calls < MaxCalls
    /\ calls' = calls + 1
    /\ UNCHANGED restOfLocal

\* dropped = scene.drop_layer(which) with a name: Scene.drop_layer takes the
\* layer out of the scene and returns it, then the records with the layer's
\* name are taken out of the document.  The layer is returned as it is:
\* its _viewer, its _lock and the callback of its state stay.
LocalDropLayer(which) ==
    /\ IF ~Contains(localLayers, which)
       THEN /\ ev' = Event("drop_layer", 0, None, None, "ValueError", 0, FALSE)
            /\ UNCHANGED <<localLayers, viewer, dropped>>
       ELSE LET ix == CHOOSE i \in LayersNamed(localLayers, which) : TRUE
            IN  /\ localLayers' = ListWithout(localLayers, ix - 1)
                /\ dropped' = <<localLayers[ix]>>
                /\ viewer' = [viewer EXCEPT !.layers =
                                 SelectSeq(@, LAMBDA rec : DictGet(rec, "name") # which)]
                /\ ev' = Event("drop_layer", ix, None, None, None, 1, FALSE)
    /\ UNCHANGED <<scene, depth>>
    /\ calls < MaxCalls
    /\ calls' = calls + 1
    /\ UNCHANGED restOfLocal

\* scene.layers[i - 1][k] = val
LayerWrite(i, k, val) ==
    /\ i \in DOMAIN localLayers
    /\ LET r == HeldSetItem(localLayers[i], k, val, viewer)
       IN  /\ localLayers' = [localLayers EXCEPT ![i] = r.layer]
           /\ viewer' = r.viewer
           /\ ev' = [Event("layer_setitem", i, None, None, r.exc, r.writes, r.locked)
                       EXCEPT !.key = k]
    /\ UNCHANGED <<scene, depth>>
    /\ UNCHANGED dropped
    /\ calls < MaxCalls
    /\ calls' = calls + 1
    /\ UNCHANGED restOfLocal

\* scene.layers[i - 1][k][x] = val: BaseLayer.__getitem__ reads the state,
\* which pulls for a linked layer, and raises AttributeError for a key the
\* state lacks; the write goes to the container under k and, for a state
\* that carries the callback, calls push_state.
LayerNestedWrite(i, k, x, val) ==
    /\ i \in DOMAIN localLayers
    /\ LET l == localLayers[i]
           p == IF l.linked THEN LayerPullState(l, viewer) ELSE [layer |-> l, exc |-> None]
           inner == [p.layer EXCEPT !.state[k] = DictSet(@, x, val)]
           r == IF p.layer.wrapped THEN LayerPushState(inner, viewer, TRUE)
                ELSE [viewer |-> viewer, exc |-> None, writes |-> 0, locked |-> FALSE]
       IN  IF p.exc # None
           THEN /\ UNCHANGED <<localLayers, viewer>>
                /\ ev' = [Event("layer_nested_setitem", i, None, None, p.exc, 0, FALSE)
                            EXCEPT !.key = k]
           ELSE IF k \notin DOMAIN p.layer.state
           THEN /\ localLayers' = [localLayers EXCEPT ![i] = p.layer]
                /\ UNCHANGED viewer
                /\ ev' = [Event("layer_nested_setitem", i, None, None, "AttributeError",
                                0, FALSE) EXCEPT !.key = k]
           ELSE /\ localLayers' = [localLayers EXCEPT ![i] = inner]
                /\ viewer' = r.viewer
                /\ ev' = [Event("layer_nested_setitem", i, None, None, r.exc, r.writes,
                                r.locked) EXCEPT !.key = k]
    /\ UNCHANGED <<scene, depth>>
    /\ UNCHANGED dropped
    /\ calls < MaxCalls
    /\ calls' = calls + 1
    /\ UNCHANGED restOfLocal

\* scene.layers[i - 1].state.pop(k): the state getter pulls for a linked
\* layer; dict.pop raises KeyError for a key the state lacks, before the
\* callback; for a state that carries the callback, push_state follows.
LayerStatePop(i, k) ==
    /\ i \in DOMAIN localLayers
    /\ LET l == localLayers[i]
           p == IF l.linked THEN LayerPullState(l, viewer) ELSE [layer |-> l, exc |-> None]
           popped == [p.layer EXCEPT !.state = [x \in (DOMAIN @) \ {k} |-> @[x]]]
           r == IF p.layer.wrapped THEN LayerPushState(popped, viewer, TRUE)
                ELSE [viewer |-> viewer, exc |-> None, writes |-> 0, locked |-> FALSE]
       IN  IF p.exc # None
           THEN /\ UNCHANGED <<localLayers, viewer>>
                /\ ev' = [Event("layer_state_pop", i, None, None, p.exc, 0, FALSE)
                            EXCEPT !.key = k]
           ELSE IF k \notin DOMAIN p.layer.state
           THEN /\ localLayers' = [localLayers EXCEPT ![i] = p.layer]
                /\ UNCHANGED viewer
                /\ ev' = [Event("layer_state_pop", i, None, None, "KeyError", 0, FALSE)
                            EXCEPT !.key = k]
           ELSE /\ localLayers' = [localLayers EXCEPT ![i] = popped]
                /\ viewer' = r.viewer
                /\ ev' = [Event("layer_state_pop", i, None, None, r.exc, r.writes,
                                r.locked) EXCEPT !.key = k]
    /\ UNCHANGED <<scene, depth>>
    /\ UNCHANGED dropped
    /\ calls < MaxCalls
    /\ calls' = calls + 1
    /\ UNCHANGED restOfLocal

\* scene["layout"] = val: the write to _state and, with auto_sync, the
\* push_state the CallBackDict calls.
SceneWrite(val) ==
    /\ LET written == [scene EXCEPT !.state = DictSet(@, "layout", val)]
           r == IF scene.auto_sync THEN ScenePushOwn(written, viewer, FALSE, TRUE)
                ELSE [viewer |-> viewer, exc |-> None, writes |-> 0, locked |-> FALSE]
       IN  /\ scene' = written
           /\ viewer' = r.viewer
           /\ ev' = Event("scene_setitem", 0, None, None, r.exc, r.writes, r.locked)
    /\ UNCHANGED <<localLayers, depth>>
    /\ UNCHANGED dropped
    /\ calls < MaxCalls
    /\ calls' = calls + 1
    /\ UNCHANGED restOfLocal

\* scene.layers[i - 1].push_state()
LayerPush(i, ok) ==
    /\ i \in DOMAIN localLayers
    /\ LET r == LayerPushState(localLayers[i], viewer, ok)
       IN  /\ viewer' = r.viewer
           /\ ev' = Event("layer_push", i, None, None, r.exc, r.writes, r.locked)
    /\ UNCHANGED <<scene, localLayers, depth>>
    /\ UNCHANGED dropped
    /\ calls < MaxCalls
    /\ calls' = calls + 1
    /\ UNCHANGED restOfLocal

\* scene.layers[i - 1].pull_state()
LayerPull(i) ==
    /\ i \in DOMAIN localLayers
    /\ LET r == LayerPullState(localLayers[i], viewer)
       IN  /\ localLayers' = [localLayers EXCEPT ![i] = r.layer]
           /\ ev' = Event("layer_pull", i, None, None, r.exc, 0, FALSE)
    /\ UNCHANGED <<scene, viewer, depth>>
    /\ UNCHANGED dropped
    /\ calls < MaxCalls
    /\ calls' = calls + 1
    /\ UNCHANGED restOfLocal

\* scene.push_state(exclude_layers=exclude_layers, ignore_lock=ignore_lock)
ScenePush(exclude_layers, ignore_lock, ok) ==
    /\ LET r == ScenePushState(scene, localLayers, viewer, exclude_layers,
                               ignore_lock, ok)
       IN  /\ scene' = r.scene
           /\ localLayers' = r.layers
           /\ viewer' = r.viewer
           /\ ev' = Event(IF ignore_lock THEN "scene_push_ignore_lock" ELSE "scene_push",
                          0, None, None, r.exc, r.writes, r.locked)
    /\ UNCHANGED depth
    /\ UNCHANGED dropped
    /\ calls < MaxCalls
    /\ calls' = calls + 1
    /\ UNCHANGED restOfLocal

\* scene.pull_state()
ScenePull ==
    /\ LET r == ScenePullState(scene, viewer)
       IN  /\ scene' = r.scene
           /\ viewer' = r.viewer
           /\ ev' = Event("scene_pull", 0, None, None, r.exc, r.writes, r.locked)
    /\ UNCHANGED <<localLayers, depth>>
    /\ UNCHANGED dropped
    /\ calls < MaxCalls
    /\ calls' = calls + 1
    /\ UNCHANGED restOfLocal

\* dropped[k] = val on the layer drop_layer returned
DroppedWrite(k, val) ==
    /\ dropped # <<>>
    /\ LET r == HeldSetItem(dropped[1], k, val, viewer)
       IN  /\ dropped' = <<r.layer>>
           /\ viewer' = r.viewer
           /\ ev' = Event("dropped_setitem", 0, None, None, r.exc, r.writes, r.locked)
    /\ UNCHANGED <<scene, localLayers, depth>>
    /\ calls < MaxCalls
    /\ calls' = calls + 1
    /\ UNCHANGED restOfLocal

\* Another writer adds a record with the name name to the viewer's document.
RemoteAddLayer(name) ==
    /\ Len(viewer.layers) < MaxRemote
    /\ viewer' = [viewer EXCEPT !.layers = Append(@, [name |-> name, source |-> "s3"])]
    /\ ev' = Event("remote", 0, None, None, None, 0, FALSE)
    /\ UNCHANGED <<scene, localLayers, depth>>
    /\ UNCHANGED dropped
    /\ calls < MaxCalls
    /\ calls' = calls + 1
    /\ UNCHANGED restOfLocal

\* Another writer sets the layout of the viewer's document.
RemoteSetScene ==
    /\ viewer' = [viewer EXCEPT !.state = DictSet(@, "layout", "4panel")]
    /\ ev' = Event("remote", 0, None, None, None, 0, FALSE)
    /\ UNCHANGED <<scene, localLayers, depth>>
    /\ UNCHANGED dropped
    /\ calls < MaxCalls
    /\ calls' = calls + 1
    /\ UNCHANGED restOfLocal

\* Another writer sets field k of record i of the viewer's document.
RemoteSetLayer(i, k, val) ==
    /\ i \in DOMAIN viewer.layers
    /\ viewer' = [viewer EXCEPT !.layers[i] = DictSet(@, k, val)]
    /\ ev' = [Event("remote", i, None, None, None, 0, FALSE) EXCEPT !.key = k]
    /\ UNCHANGED <<scene, localLayers, depth>>
    /\ UNCHANGED dropped
    /\ calls < MaxCalls
    /\ calls' = calls + 1
    /\ UNCHANGED restOfLocal

\* The loop of BundleUpdates.__enter__ from layer i on: pull, then lock.
RECURSIVE EnterLayers(_, _, _)
EnterLayers(ls, v, i) ==
    IF i > Len(ls) THEN [layers |-> ls, exc |-> None]
    ELSE LET r == LayerPullState(ls[i], v)
         IN  IF r.exc # None THEN [layers |-> ls, exc |-> r.exc]
             ELSE EnterLayers([ls EXCEPT ![i] = [r.layer EXCEPT !.lock = TRUE]], v, i + 1)

\* with BundleUpdates(scene): at the start of the program or in the body of
\* another one.  BundleUpdates.__enter__ runs, and the body is entered when
\* it raises nothing.
Enter ==
    /\ depth < MaxDepth
    /\ LET p == ScenePullState(scene, viewer)
           e == EnterLayers(localLayers, p.viewer, 1)
       IN  /\ viewer' = p.viewer
           /\ IF p.exc # None
              THEN /\ scene' = p.scene
                   /\ UNCHANGED localLayers
                   /\ depth' = depth
                   /\ ev' = Event("enter", 0, None, None, p.exc, p.writes, p.locked)
              ELSE /\ scene' = [p.scene EXCEPT !.lock = TRUE]
                   /\ localLayers' = e.layers
                   /\ depth' = IF e.exc = None THEN depth + 1 ELSE depth
                   /\ ev' = Event("enter", 0, None, None, e.exc, p.writes, p.locked)
    /\ UNCHANGED dropped
    /\ calls < MaxCalls
    /\ calls' = calls + 1
    /\ UNCHANGED restOfLocal

\* The end of the innermost with statement: its body has ended with the exception body
\* (None: with none) and BundleUpdates.__exit__ runs.  An exception of
\* push_state leaves __exit__ before the locks are cleared and replaces the
\* body's; __exit__ returns None, so the body's exception is raised again.
Exit(body, ok) ==
    /\ inScope
    /\ LET r == ScenePushState(scene, localLayers, viewer, FALSE, TRUE, ok)
       IN  /\ viewer' = r.viewer
           /\ IF r.exc # None
              THEN /\ scene' = r.scene
                   /\ localLayers' = r.layers
                   /\ ev' = Event("exit", 0, body, r.exc, r.exc, r.writes, r.locked)
              ELSE /\ scene' = [r.scene EXCEPT !.lock = FALSE]
                   /\ localLayers' =
                          [i \in DOMAIN r.layers |-> [r.layers[i] EXCEPT !.lock = FALSE]]
                   /\ ev' = Event("exit", 0, body, None, body, r.writes, r.locked)
    /\ depth' = depth - 1
    /\ UNCHANGED dropped
    /\ calls < MaxCalls
    /\ calls' = calls + 1
    /\ UNCHANGED restOfLocal

(***************************************************************************)
(* SpecLayer: one layer that is linked to no viewer: its construction,     *)
(* writes through layer[key] = value, and layer.state.pop(key).            *)
(***************************************************************************)
\* The program holds no layer.
NoLayer == [type |-> "none", state |-> <<>>]

\* MUST_HAVE of a class of the package.
MustHave(t) == IF t = "BaseLayer" THEN {"name"} ELSE {"name", "source"}

\* MUST_HAVE, MUST_NOT_HAVE and MUST_ONLY_HAVE of a class of the package:
\* none overrides the two empty lists of BaseLayer.
Schema(t) ==
    [type |-> t, must_have |-> MustHave(t), must_not_have |-> {}, must_only_have |-> {}]

\* BaseLayer, and two subclasses of it that override MUST_NOT_HAVE and
\* MUST_ONLY_HAVE, the two class attributes no class of the package overrides.
BaseSchemas ==
    {Schema("BaseLayer"),
     [type |-> "ForbiddingLayer", must_have |-> {"name"}, must_not_have |-> {"bad"},
      must_only_have |-> {}],
     [type |-> "ClosedLayer", must_have |-> {"name"}, must_not_have |-> {},
      must_only_have |-> {"name", "source"}]}

\* validate_properties without the loop over MUST_ONLY_HAVE.
ValidatePropertiesOpen(state, c) ==
    IF \E k \in c.must_have : k \notin DOMAIN state THEN "ValueError"
    ELSE IF \E k \in c.must_not_have : k \in DOMAIN state THEN "ValueError"
    ELSE None

\* BaseLayer.validate_properties: the exception it raises, or None.
ValidateProperties(state, c) ==
    IF c.must_only_have # {} /\ \E k \in DOMAIN state : k \notin c.must_only_have
        THEN "ValueError"
    ELSE IF \E k \in c.must_have : k \notin DOMAIN state THEN "ValueError"
    ELSE IF \E k \in c.must_not_have : k \in DOMAIN state THEN "ValueError"
    ELSE None

\* BaseLayer.__init__(**kwargs) for a class with the lists c: the state is
\* the keyword arguments as they are, then validate_properties.
BaseInit(c, kwargs) ==
    LET exc == ValidateProperties(kwargs, c)
    IN  [layer |-> IF exc = None THEN [type |-> c.type, state |-> kwargs] ELSE NoLayer,
         exc |-> exc]

\* cls(source, **kwargs) for a class of the package.
Construct(t, source, kwargs) ==
    CASE t = "ImageLayer" -> ImageLayer(source, kwargs)
      [] t = "SegmentationLayer" -> SegmentationLayer(source, kwargs)
      [] t = "AnnotationLayer" -> AnnotationLayer(source, kwargs)
      [] t = "MeshLayer" -> MeshLayer(source, kwargs)

\* The classes whose __init__ takes source as a positional argument.
SourcedTypes == {"ImageLayer", "SegmentationLayer", "AnnotationLayer", "MeshLayer"}

\* The values given for segments: an int, a str, lists and an array.
SegmentValues ==
    {PyInt("int:1"), PyStr("1"), PyList(<<>>), PyList(<<"int:1">>), PyList(<<"1">>),
     PyList(<<"int:1", "2">>), PyList(<<"int:1", "int:2", "int:3">>),
     PyArray(<<"int:1", "int:2">>)}

\* The keyword arguments with the keys ks.
Kwargs(ks, segs) ==
    [k \in ks |-> CASE k = "name" -> "a"
                    [] k = "source" -> "s"
                    [] k = "segments" -> segs
                    [] OTHER -> "b"]

\* The writes layer[k] = v and the keys of layer.state.pop(k).
ItemWrites ==
    {<<"segments", v>> : v \in SegmentValues} \cup {<<"blend", "additive">>}

PoppedKeys == {"name", "source", "segments"}

InitLayer ==
    /\ theLayer = NoLayer
    /\ layerEv = [op |-> "init", cls |-> Schema("BaseLayer"), props |-> <<>>, exc |-> None]

\* layer = cls(**kwargs) for BaseLayer or a subclass that declares only the
\* three lists.
NewBaseLayer(c, kwargs) ==
    /\ theLayer = NoLayer
    /\ LET r == BaseInit(c, kwargs)
       IN  /\ theLayer' = r.layer
           /\ layerEv' = [op |-> "new", cls |-> c, props |-> kwargs, exc |-> r.exc]
    /\ UNCHANGED restOfLayer

\* layer = cls(**kwargs) for a class of the package whose __init__ takes
\* source: without source the call raises TypeError, else the properties are
\* DEFAULTS, then source, then the other keyword arguments.
NewLayer(t, kwargs) ==
    /\ theLayer = NoLayer
    /\ IF "source" \notin DOMAIN kwargs
       THEN /\ theLayer' = NoLayer
            /\ layerEv' = [op |-> "new_without_source", cls |-> Schema(t),
                           props |-> kwargs, exc |-> "TypeError"]
       ELSE LET props == Construct(t, kwargs["source"],
                                   [k \in (DOMAIN kwargs) \ {"source"} |-> kwargs[k]]).state
                r == BaseInit(Schema(t), props)
            IN  /\ theLayer' = r.layer
                /\ layerEv' = [op |-> "new", cls |-> Schema(t), props |-> props,
                               exc |-> r.exc]
    /\ UNCHANGED restOfLayer

\* layer[k] = v
SetItem(k, v) ==
    /\ theLayer # NoLayer
    /\ theLayer' = LayerSetItem(theLayer, k, v)
    /\ layerEv' = [op |-> "setitem", cls |-> layerEv.cls, props |-> <<>>, exc |-> None]
    /\ UNCHANGED restOfLayer

\* layer.state.pop(k): KeyError for a key the state does not hold.
StatePop(k) ==
    /\ theLayer # NoLayer
    /\ IF k \in DOMAIN theLayer.state
       THEN /\ theLayer' = [theLayer EXCEPT
                                !.state = [x \in (DOMAIN theLayer.state) \ {k} |-> theLayer.state[x]]]
            /\ layerEv' = [op |-> "pop", cls |-> layerEv.cls, props |-> <<>>, exc |-> None]
       ELSE /\ theLayer' = theLayer
            /\ layerEv' = [op |-> "pop", cls |-> layerEv.cls, props |-> <<>>,
                           exc |-> "KeyError"]
    /\ UNCHANGED restOfLayer

\* The layers on the right of "|": segmentation layers of the layer's source
\* and of another one, and an image layer.
OrOperands ==
    {SegmentationLayer("s", [segments |-> PyList(<<"1", "3">>)]),
     SegmentationLayer("s", [segments |-> PyList(<<"int:2">>)]),
     SegmentationLayer("t", [segments |-> PyList(<<"1">>)]),
     ImageLayer("s", <<>>)}

\* x = layer | other for a layer of a class of the package whose segments,
\* if it has any, are not an array: the layer and other stay as they are.
\* x['segments'] + other['segments'] raises TypeError unless both are lists.
OrLayers(other) ==
    /\ theLayer # NoLayer
    /\ theLayer.type \in LayerTypes
    /\ "segments" \in DOMAIN theLayer.state => theLayer.state["segments"].py # "ndarray"
    /\ UNCHANGED theLayer
    /\ LET out == LayerOrOutcome(theLayer, other)
       IN  IF out # "ok"
           THEN layerEv' = [op |-> "or", cls |-> layerEv.cls, props |-> <<>>,
                            exc |-> out, other |-> other, x |-> NoLayer]
           ELSE IF OrImpl(theLayer.type) = "SegmentationLayer"
                   /\ theLayer.state["segments"].py # "list"
           THEN layerEv' = [op |-> "or", cls |-> layerEv.cls, props |-> <<>>,
                            exc |-> "TypeError", other |-> other, x |-> NoLayer]
           ELSE \E x \in LayerOr(theLayer, other) :
                    layerEv' = [op |-> "or", cls |-> layerEv.cls, props |-> <<>>,
                                exc |-> None, other |-> other, x |-> x]
    /\ UNCHANGED restOfLayer

NextLayer ==
    \/ \E c \in BaseSchemas, ks \in SUBSET {"name", "source", "bad"} :
           NewBaseLayer(c, Kwargs(ks, PyList(<<>>)))
    \/ \E t \in SourcedTypes, ks \in SUBSET {"name", "source"} : NewLayer(t, Kwargs(ks, PyList(<<>>)))
    \/ \E ks \in SUBSET {"name", "source"}, segs \in SegmentValues :
           NewLayer("SegmentationLayer", Kwargs(ks \cup {"segments"}, segs))
    \/ \E w \in ItemWrites : SetItem(w[1], w[2])
    \/ \E k \in PoppedKeys : StatePop(k)
    \/ \E other \in OrOperands : OrLayers(other)

(***************************************************************************)
(* SpecCopy: copy.deepcopy of a layer, a Scene and a LocalScene.           *)
(* An object is its class (kind), its _state, its _stale flag, the         *)
(* callback its _state carries, its _viewer, its layers and the URL it has *)
(* cached.  A callback is                                                  *)
(* named after the object whose state setter made it: "orig" is the        *)
(* set_stale (Scene) or set_stale_and_push (LocalScene) closure of the     *)
(* original scene, "orig.layer" and "twin.layer" the push_state method of  *)
(* a layer; None is a plain dict.  Viewers are "v1", the original's, and   *)
(* "v2", the one the copy of a LocalScene spawns.                          *)
(***************************************************************************)
\* Scene._url before the first make_url.
NoUrl == [made |-> FALSE, state |-> <<>>, layers |-> <<>>]

NoObject ==
    [kind |-> "none", state |-> <<>>, stale |-> FALSE, callback |-> None,
     viewer |-> None, layers |-> <<>>, url |-> NoUrl]

SceneKinds == {"Scene", "LocalScene"}

\* A layer of the scene that owner names, linked to the viewer v or to none.
LayerObject(l, owner, v) ==
    [kind |-> l.type, state |-> l.state, stale |-> FALSE,
     callback |-> IF v = None THEN None ELSE owner \o ".layer",
     viewer |-> v, layers |-> <<>>, url |-> NoUrl]

\* Scene(**kwargs), and add_layers(l) for each layer of ls: the state setter
\* wraps the state with set_stale and sets _stale, as add_layers does.
NewScene(kwargs, ls) ==
    [kind |-> "Scene", state |-> kwargs, stale |-> TRUE, callback |-> "orig",
     viewer |-> None, layers |-> [i \in DOMAIN ls |-> LayerObject(ls[i], "orig", None)],
     url |-> NoUrl]

\* LocalScene(auto_sync=auto_sync, **kwargs), scene.viewer, and
\* add_layers(l) for each layer of ls: the state setter wraps the state
\* with set_stale_and_push when auto_sync is set, and add_layers links the
\* layers to the viewer.
NewLocalScene(auto_sync, kwargs, ls) ==
    [kind |-> "LocalScene", state |-> kwargs, stale |-> ls # <<>>,
     callback |-> IF auto_sync THEN "orig" ELSE None,
     viewer |-> "v1", layers |-> [i \in DOMAIN ls |-> LayerObject(ls[i], "orig", "v1")],
     url |-> NoUrl]

\* BaseLayer.__getstate__ and __setstate__ under copy.deepcopy: _viewer is
\* None and the state is rebuilt by remove_callback.
LayerDeepCopy(l) == [l EXCEPT !.viewer = None, !.callback = None]

\* Scene.__getstate__ and __setstate__ under copy.deepcopy: _viewer is None,
\* the layers are copied, and the state is copied as the CallBackDict it
\* is: deepcopy rebuilds it with the same _callback, a function, which it
\* does not copy.  LocalScene.__setstate__ then links each layer to
\* self.viewer, which spawns a viewer.
SceneDeepCopy(sc) ==
    LET copied == [i \in DOMAIN sc.layers |-> LayerDeepCopy(sc.layers[i])]
    IN  IF sc.kind = "LocalScene" /\ copied # <<>>
        THEN [sc EXCEPT !.viewer = "v2",
                        !.layers = [i \in DOMAIN copied |->
                                       [copied[i] EXCEPT !.viewer = "v2",
                                                         !.callback = "twin.layer"]]]
        ELSE [sc EXCEPT !.viewer = None, !.layers = copied]

\* The callbacks CallBackDict.__setitem__ runs on the state d that carries
\* the callback cb: none for a plain dict.
Ran(cb) == IF cb = None THEN {} ELSE {cb}

\* The scenes whose _stale the callbacks cbs set, and the viewers they push
\* to: the closure of the original scene sets its _stale and, in a
\* LocalScene, calls its push_state; the push_state of a layer pushes to
\* the layer's viewer.
Staled(cbs) == IF "orig" \in cbs THEN {"orig"} ELSE {}

Pushed(cbs, o) ==
    (IF "orig" \in cbs /\ o.kind = "LocalScene" THEN {"v1"} ELSE {})
        \cup (IF "orig.layer" \in cbs THEN {"v1"} ELSE {})
        \cup (IF "twin.layer" \in cbs THEN {"v2"} ELSE {})

\* The original after the callbacks cbs ran.
AfterCallbacks(o, cbs) == IF "orig" \in cbs THEN [o EXCEPT !.stale = TRUE] ELSE o

CopyEvent(name, cbs, o) ==
    [op |-> name, ran |-> cbs, staled |-> Staled(cbs), pushed |-> Pushed(cbs, o)]

\* The keyword arguments of the scenes and the writes to scenes and layers.
SceneKwargs == {<<>>, [layout |-> "xy"]}

SceneWrites == {<<"layout", "3d">>, <<"title", "t">>}

InitCopy ==
    /\ orig = NoObject
    /\ twin = NoObject
    /\ copyEv = [op |-> "init", ran |-> {}, staled |-> {}, pushed |-> {}]

\* orig = Scene(**kwargs) or LocalScene(auto_sync, **kwargs), with the
\* layers ls added
CreateScene(kind, auto_sync, kwargs, ls) ==
    /\ orig = NoObject
    /\ orig' = IF kind = "Scene" THEN NewScene(kwargs, ls)
               ELSE NewLocalScene(auto_sync, kwargs, ls)
    /\ copyEv' = CopyEvent("new", {}, orig)
    /\ UNCHANGED twin
    /\ UNCHANGED restOfCopy

\* orig = ImageLayer("s1"), linked to a viewer or not
CreateLayer(linked) ==
    /\ orig = NoObject
    /\ orig' = LayerObject(ImageLayer("s1", <<>>), "orig", IF linked THEN "v1" ELSE None)
    /\ copyEv' = CopyEvent("new", {}, orig)
    /\ UNCHANGED twin
    /\ UNCHANGED restOfCopy

\* The URL make_url builds: the base URL and the JSON text of as_dict(),
\* the scene's state and, under "layers", the state of each layer it holds.
UrlOf(sc) ==
    [made |-> TRUE, state |-> sc.state,
     layers |-> [i \in DOMAIN sc.layers |-> sc.layers[i].state]]

\* orig.make_url() on a Scene
MakeUrl ==
    /\ orig.kind = "Scene"
    /\ orig' = [orig EXCEPT !.stale = FALSE, !.url = UrlOf(orig)]
    /\ copyEv' = CopyEvent("make_url", {}, orig)
    /\ UNCHANGED twin
    /\ UNCHANGED restOfCopy

\* twin = copy.deepcopy(orig): rebuilding a CallBackDict sets each of its
\* keys through CallBackDict.__setitem__, which runs the callback.
DeepCopy ==
    /\ orig # NoObject
    /\ twin = NoObject
    /\ IF orig.kind \in SceneKinds
       THEN LET cbs == IF DOMAIN orig.state = {} THEN {} ELSE Ran(orig.callback)
            IN  /\ twin' = SceneDeepCopy(orig)
                /\ orig' = AfterCallbacks(orig, cbs)
                /\ copyEv' = CopyEvent("deepcopy", cbs, orig)
       ELSE /\ twin' = LayerDeepCopy(orig)
            /\ orig' = orig
            /\ copyEv' = CopyEvent("deepcopy", {}, orig)
    /\ UNCHANGED restOfCopy

\* twin[k] = v: for a scene, Scene.__setitem__ writes to _state and sets the
\* copy's _stale; for a layer, BaseLayer.__setitem__ writes to _state.
TwinSetItem(k, v) ==
    /\ twin # NoObject
    /\ twin' = [twin EXCEPT !.state = DictSet(@, k, v),
                            !.stale = IF twin.kind \in SceneKinds THEN TRUE ELSE @]
    /\ orig' = AfterCallbacks(orig, Ran(twin.callback))
    /\ copyEv' = CopyEvent("twin_setitem", Ran(twin.callback), orig)
    /\ UNCHANGED restOfCopy

\* twin.layers[i - 1][k] = v on a layer of the copy of a scene
TwinLayerSetItem(i, k, v) ==
    /\ i \in DOMAIN twin.layers
    /\ twin' = [twin EXCEPT !.layers[i].state = DictSet(@, k, v)]
    /\ orig' = AfterCallbacks(orig, Ran(twin.layers[i].callback))
    /\ copyEv' = CopyEvent("twin_layer_setitem", Ran(twin.layers[i].callback), orig)
    /\ UNCHANGED restOfCopy

\* orig[k] = v
OrigSetItem(k, v) ==
    /\ orig # NoObject
    /\ LET written == [orig EXCEPT !.state = DictSet(@, k, v),
                                   !.stale = IF orig.kind \in SceneKinds THEN TRUE ELSE @]
       IN  orig' = AfterCallbacks(written, Ran(orig.callback))
    /\ copyEv' = CopyEvent("orig_setitem", Ran(orig.callback), orig)
    /\ UNCHANGED twin
    /\ UNCHANGED restOfCopy

\* orig.layers[i - 1][k] = v on a layer of a Scene: BaseLayer.__setitem__
\* writes to the layer's _state, a plain dict as the layer has no viewer.
OrigLayerSetItem(i, k, v) ==
    /\ orig.kind = "Scene"
    /\ i \in DOMAIN orig.layers
    /\ LET cbs == Ran(orig.layers[i].callback)
       IN  /\ orig' = AfterCallbacks([orig EXCEPT !.layers[i].state = DictSet(@, k, v)],
                                     cbs)
           /\ copyEv' = CopyEvent("orig_layer_setitem", cbs, orig)
    /\ UNCHANGED twin
    /\ UNCHANGED restOfCopy

\* orig.add_layers(l) on a Scene that holds no layer: the layer is appended
\* and _stale is set.
OrigAddLayers(l) ==
    /\ orig.kind = "Scene"
    /\ orig.layers = <<>>
    /\ orig' = [orig EXCEPT !.layers = <<LayerObject(l, "orig", None)>>,
                            !.stale = TRUE]
    /\ copyEv' = CopyEvent("orig_add_layers", {}, orig)
    /\ UNCHANGED twin
    /\ UNCHANGED restOfCopy

\* orig.drop_layer(0) on a Scene: _stale is set, then the layer is popped or
\* ValueError is raised.
OrigDropLayer ==
    /\ orig.kind = "Scene"
    /\ orig' = [orig EXCEPT !.layers = IF @ = <<>> THEN @ ELSE Tail(@),
                            !.stale = TRUE]
    /\ copyEv' = CopyEvent("orig_drop_layer", {}, orig)
    /\ UNCHANGED twin
    /\ UNCHANGED restOfCopy

NextCopy ==
    \/ \E kind \in SceneKinds, auto_sync \in BOOLEAN, kwargs \in SceneKwargs,
          ls \in {<<>>, <<ImageLayer("s1", <<>>)>>} :
           CreateScene(kind, auto_sync, kwargs, ls)
    \/ \E linked \in BOOLEAN : CreateLayer(linked)
    \/ MakeUrl
    \/ DeepCopy
    \/ \E w \in SceneWrites : TwinSetItem(w[1], w[2])
    \/ TwinLayerSetItem(1, "blend", "additive")
    \/ \E w \in SceneWrites : OrigSetItem(w[1], w[2])
    \/ OrigLayerSetItem(1, "blend", "additive")
    \/ OrigAddLayers(ImageLayer("s1", <<>>))
    \/ OrigDropLayer

(***************************************************************************)
(* SpecObs: the observable containers CallBackDict and CallBackList        *)
(* (nglscenes/utils.py).  A Python value is a record: py is its type       *)
(* ("str" for a leaf, "dict", "list"), cb the callback it carries ("" for  *)
(* a leaf, a plain dict and a plain list), keys the keys of a dict in      *)
(* insertion order, items the values of a dict or the items of a list, and *)
(* val the text of a leaf.                                                 *)
(***************************************************************************)
Atom(s) == [py |-> "str", cb |-> "", keys |-> <<>>, items |-> <<>>, val |-> s]

Mapping(ks, xs, callback) ==
    [py |-> "dict", cb |-> callback, keys |-> ks, items |-> xs, val |-> ""]

Listing(xs, callback) ==
    [py |-> "list", cb |-> callback, keys |-> <<>>, items |-> xs, val |-> ""]

\* A tuple: a sequence that is neither a dict nor a list.
TupleOf(xs) == [py |-> "tuple", cb |-> "", keys |-> <<>>, items |-> xs, val |-> ""]

\* An exception in the place of a value.
Raised(e) == [py |-> "exception", cb |-> "", keys |-> <<>>, items |-> <<>>, val |-> e]

IsRaised(x) == x.py = "exception"

NoneValue == Atom("None")

IsContainer(x) == x.py \in {"dict", "list"}

\* Some item of xs is an exception.
AnyRaised(xs) == \E i \in DOMAIN xs : IsRaised(xs[i])

\* CallBackDict.__init__(self, callback, *args, **kwargs) called as
\* CallBackDict(callback, **x): a key of x named after a parameter is a
\* second value for it, a TypeError.
ParameterNames == {"self", "callback"}

ClashesWithParameter(x) == \E i \in DOMAIN x.keys : x.keys[i] \in ParameterNames

\* InitFires for an __init__ that stores the items one by one through the
\* class's own __setitem__ or append.
InitFiresPerItem(x) == Len(x.items)

\* The callback calls CallBackDict(callback, **x) and CallBackList(callback, x)
\* make: super().__init__ fills the container without calling the methods
\* the class overrides.
InitFires(x) == 0

RECURSIVE AddOnChangeCallback(_, _, _)
\* add_on_change_callback(x, callback, recursive)
AddOnChangeCallback(x, callback, recursive) ==
    IF x.py = "dict"
    THEN LET kids == IF recursive
                     THEN [i \in DOMAIN x.items |->
                              AddOnChangeCallback(x.items[i], callback, TRUE)]
                     ELSE x.items
             y == IF recursive THEN Mapping(x.keys, kids, "") ELSE x
         IN  IF AnyRaised(kids) THEN Raised("TypeError")
             ELSE IF y.cb # "" THEN y
             ELSE IF ClashesWithParameter(y) THEN Raised("TypeError")
             ELSE [y EXCEPT !.cb = callback]
    ELSE IF x.py = "list"
    THEN LET kids == IF recursive
                     THEN [i \in DOMAIN x.items |->
                              AddOnChangeCallback(x.items[i], callback, TRUE)]
                     ELSE x.items
             y == IF recursive THEN Listing(kids, "") ELSE x
         IN  IF AnyRaised(kids) THEN Raised("TypeError")
             ELSE IF y.cb # "" THEN y
             ELSE [y EXCEPT !.cb = callback]
    ELSE x

RECURSIVE WrapFires(_)
\* The callback calls add_on_change_callback(x, callback, True) makes: those
\* of the constructors of the containers it builds.
WrapFires(x) ==
    IF IsContainer(x)
    THEN LET RECURSIVE Sum(_)
             Sum(i) == IF i = 0 THEN 0 ELSE WrapFires(x.items[i]) + Sum(i - 1)
         IN  InitFires(x) + Sum(Len(x.items))
    ELSE 0

RECURSIVE RemoveCallback(_, _)
\* remove_callback(x, recursive)
RemoveCallback(x, recursive) ==
    IF IsContainer(x)
    THEN LET kids == IF recursive
                     THEN [i \in DOMAIN x.items |->
                              RemoveCallback(x.items[i], TRUE)]
                     ELSE x.items
         IN  IF recursive
             THEN IF x.py = "dict" THEN Mapping(x.keys, kids, "") ELSE Listing(kids, "")
             ELSE [x EXCEPT !.cb = ""]
    ELSE x

\* The position of key k in the keys ks, 0 when ks lacks it.
KeyIndex(ks, k) ==
    IF \E i \in DOMAIN ks : ks[i] = k THEN CHOOSE i \in DOMAIN ks : ks[i] = k ELSE 0

\* dict.__setitem__: a new key goes last, a held key keeps its place.
PyDictSetItem(m, k, v) ==
    IF KeyIndex(m.keys, k) = 0
    THEN [m EXCEPT !.keys = Append(@, k), !.items = Append(@, v)]
    ELSE [m EXCEPT !.items[KeyIndex(m.keys, k)] = v]

RECURSIVE PyDictUpdate(_, _)
\* dict.update(**other)
PyDictUpdate(m, other) ==
    IF other.keys = <<>> THEN m
    ELSE PyDictUpdate(PyDictSetItem(m, Head(other.keys), Head(other.items)),
                      [other EXCEPT !.keys = Tail(@), !.items = Tail(@)])

\* The dict without key k, which it holds.
PyDictWithout(m, k) ==
    [m EXCEPT !.keys = ListWithout(@, KeyIndex(m.keys, k) - 1),
              !.items = ListWithout(@, KeyIndex(m.keys, k) - 1)]

\* The outcome of a call on a container: the container afterwards, the
\* callback calls made, the exception raised and the value returned.
Outcome(x, fired, exc, returned) ==
    [box |-> x, fired |-> fired, exc |-> exc, ret |-> returned]

\* CallBackDict.__setitem__(key, val)
CallBackDictSetItem(m, key, val) ==
    LET w == AddOnChangeCallback(val, m.cb, TRUE)
    IN  IF IsRaised(w) THEN Outcome(m, 0, w.val, NoneValue)
        ELSE Outcome(PyDictSetItem(m, key, w), WrapFires(val) + 1, None, NoneValue)

\* CallBackDict.update(other)
CallBackDictUpdate(m, other) ==
    LET new_dict == Mapping(other.keys, other.items, "")
        w == AddOnChangeCallback(new_dict, m.cb, TRUE)
    IN  IF IsRaised(w) THEN Outcome(m, 0, w.val, NoneValue)
        ELSE Outcome(PyDictUpdate(m, w), WrapFires(new_dict) + 1, None, NoneValue)

\* CallBackDict.pop(key): the value dict.pop returns is dropped.
CallBackDictPop(m, key) ==
    IF KeyIndex(m.keys, key) = 0 THEN Outcome(m, 0, "KeyError", NoneValue)
    ELSE Outcome(PyDictWithout(m, key), 1, None, NoneValue)

\* CallBackDict.clear()
CallBackDictClear(m) ==
    Outcome([m EXCEPT !.keys = <<>>, !.items = <<>>], 1, None, NoneValue)

\* del m[key]: dict.__delitem__, which CallBackDict does not override.
PyDictDelItem(m, key) ==
    IF KeyIndex(m.keys, key) = 0 THEN Outcome(m, 0, "KeyError", NoneValue)
    ELSE Outcome(PyDictWithout(m, key), 0, None, NoneValue)

\* The index a list of length n gives to the Python index index, -1 being
\* the last item; 0 when the index is out of range.
ListIndex(n, index) ==
    LET i == IF index < 0 THEN n + index + 1 ELSE index + 1
    IN  IF i \in 1..n THEN i ELSE 0

\* CallBackList.__setitem__(key, val) for an integer key
CallBackListSetItem(l, key, val) ==
    LET w == AddOnChangeCallback(val, l.cb, TRUE)
    IN  IF IsRaised(w) THEN Outcome(l, 0, w.val, NoneValue)
        ELSE IF ListIndex(Len(l.items), key) = 0
        THEN Outcome(l, WrapFires(val), "IndexError", NoneValue)
        ELSE Outcome([l EXCEPT !.items[ListIndex(Len(l.items), key)] = w],
                     WrapFires(val) + 1, None, NoneValue)

\* CallBackList.append(object)
CallBackListAppend(l, object) ==
    LET w == AddOnChangeCallback(object, l.cb, TRUE)
    IN  IF IsRaised(w) THEN Outcome(l, 0, w.val, NoneValue)
        ELSE Outcome([l EXCEPT !.items = Append(@, w)], WrapFires(object) + 1,
                     None, NoneValue)

\* CallBackList.pop(index): the item list.pop returns is dropped.
CallBackListPop(l, index) ==
    IF ListIndex(Len(l.items), index) = 0 THEN Outcome(l, 0, "IndexError", NoneValue)
    ELSE Outcome([l EXCEPT !.items = ListWithout(@, ListIndex(Len(l.items), index) - 1)],
                 1, None, NoneValue)

\* CallBackList.extend(iterable) for a list or a tuple: add_on_change_callback
\* returns an iterable that is not a list as it is.
CallBackListExtend(l, iterable) ==
    LET w == AddOnChangeCallback(iterable, l.cb, TRUE)
    IN  IF IsRaised(w) THEN Outcome(l, 0, w.val, NoneValue)
        ELSE Outcome([l EXCEPT !.items = @ \o w.items], WrapFires(iterable) + 1,
                     None, NoneValue)

\* The order of the leaves.
AtomRank(x) ==
    CASE x.val = "1" -> 1
      [] x.val = "2" -> 2
      [] OTHER -> 3

\* CallBackList.sort(key, reverse) on a list of leaves: super().sort(key=None,
\* reverse=False), whatever the arguments.
CallBackListSort(l, reverse) ==
    Outcome([l EXCEPT !.items = SortSeq(@, LAMBDA a, b : AtomRank(a) < AtomRank(b))],
            1, None, NoneValue)

\* CallBackList.insert(index, object) for 0 <= index
CallBackListInsert(l, index, object) ==
    LET w == AddOnChangeCallback(object, l.cb, TRUE)
        at == IF index > Len(l.items) THEN Len(l.items) ELSE index
    IN  IF IsRaised(w) THEN Outcome(l, 0, w.val, NoneValue)
        ELSE Outcome([l EXCEPT !.items = SubSeq(@, 1, at) \o <<w>>
                                           \o SubSeq(@, at + 1, Len(@))],
                     WrapFires(object) + 1, None, NoneValue)

\* The position of the first item of xs that equals the leaf v, 0 for none.
FirstIndex(xs, v) ==
    IF \E i \in DOMAIN xs : xs[i] = v
    THEN CHOOSE i \in DOMAIN xs : xs[i] = v /\ \A j \in 1..(i - 1) : xs[j] # v
    ELSE 0

\* CallBackList.remove(value) for a leaf
CallBackListRemove(l, value) ==
    IF FirstIndex(l.items, value) = 0 THEN Outcome(l, 0, "ValueError", NoneValue)
    ELSE Outcome([l EXCEPT !.items = ListWithout(@, FirstIndex(l.items, value) - 1)],
                 1, None, NoneValue)

\* del l[index]: list.__delitem__, which CallBackList does not override.
PyListDelItem(l, index) ==
    IF ListIndex(Len(l.items), index) = 0 THEN Outcome(l, 0, "IndexError", NoneValue)
    ELSE Outcome([l EXCEPT !.items = ListWithout(@, ListIndex(Len(l.items), index) - 1)],
                 0, None, NoneValue)

\* l.clear(): list.clear, which CallBackList does not override.
PyListClear(l) == Outcome([l EXCEPT !.items = <<>>], 0, None, NoneValue)

\* The structures the program wraps, the values it inserts, and the keys and
\* indices it uses.
Structures ==
    {Mapping(<<>>, <<>>, ""),
     Listing(<<>>, ""),
     Atom("1"),
     Mapping(<<"a">>, <<Listing(<<Atom("2"), Atom("1")>>, "")>>, ""),
     Listing(<<Mapping(<<"a">>, <<Atom("1")>>, ""), Atom("2")>>, ""),
     Mapping(<<"a">>, <<Mapping(<<"callback">>, <<Atom("1")>>, "")>>, "")}

Inserted ==
    {Atom("1"),
     Atom("2"),
     Mapping(<<"k">>, <<Listing(<<Atom("1")>>, "")>>, ""),
     Listing(<<Atom("2"), Atom("1")>>, "")}

Updates ==
    {Mapping(<<>>, <<>>, ""),
     Mapping(<<"a">>, <<Atom("2")>>, ""),
     Mapping(<<"b">>, <<Listing(<<Atom("1")>>, "")>>, "")}

Extensions ==
    {Listing(<<>>, ""),
     Listing(<<Mapping(<<"k">>, <<Atom("1")>>, "")>>, ""),
     TupleOf(<<Mapping(<<"k">>, <<Atom("1")>>, "")>>)}

ObsKeys == {"a", "b"}

ObsIndices == {-1, 0}

\* The last call on a container: its name, the container it was made on (0:
\* box itself, i: item i of box), the value it inserted, its exception, the
\* callback calls it made, what it returned, and the number n of calls made
\* on box since it was wrapped.
ObsEvent(name, target, arg, r, n) ==
    [op |-> name, target |-> target, arg |-> arg, exc |-> r.exc,
     fired |-> r.fired, ret |-> r.ret, n |-> n]

InitObs ==
    /\ given = Mapping(<<>>, <<>>, "")
    /\ box = Mapping(<<>>, <<>>, "cb")
    /\ back = Mapping(<<>>, <<>>, "")
    /\ obsEv = ObsEvent("init", 0, NoneValue, Outcome(NoneValue, 0, None, NoneValue), 0)

\* box = add_on_change_callback(x, cb); back = remove_callback(box)
RoundTrip(x) ==
    /\ given' = x
    /\ LET w == AddOnChangeCallback(x, "cb", TRUE)
       IN  IF IsRaised(w)
           THEN /\ UNCHANGED <<box, back>>
                /\ obsEv' = ObsEvent("round_trip", 0, x, Outcome(w, 0, w.val, NoneValue),
                                     obsEv.n)
           ELSE /\ box' = w
                /\ back' = RemoveCallback(w, TRUE)
                /\ obsEv' = ObsEvent("round_trip", 0, x,
                                     Outcome(w, WrapFires(x), None, NoneValue), 0)
    /\ UNCHANGED restOfObs

\* The containers a call is made on: box itself (0) and the items of box
\* that are containers.
Targets(kind) ==
    {t \in 0..Len(box.items) : IF t = 0 THEN box.py = kind ELSE box.items[t].py = kind}

Target(t) == IF t = 0 THEN box ELSE box.items[t]

\* The call with outcome r was made on target t, an object that box holds
\* by reference.
Call(name, t, arg, r) ==
    /\ obsEv.n < MaxOps
    /\ box' = IF t = 0 THEN r.box ELSE [box EXCEPT !.items[t] = r.box]
    /\ obsEv' = ObsEvent(name, t, arg, r, obsEv.n + 1)
    /\ UNCHANGED <<given, back>>
    /\ UNCHANGED restOfObs

\* The call leaves the container with at most MaxItems items.
Fits(r) == Len(r.box.items) <= MaxItems

\* m[key] = val on a CallBackDict
DictSetItemCall(t, key, val) ==
    /\ t \in Targets("dict")
    /\ Target(t).cb # ""
    /\ Fits(CallBackDictSetItem(Target(t), key, val))
    /\ Call("setitem", t, val, CallBackDictSetItem(Target(t), key, val))

\* m.update(other) on a CallBackDict
DictUpdateCall(t, other) ==
    /\ t \in Targets("dict")
    /\ Target(t).cb # ""
    /\ Fits(CallBackDictUpdate(Target(t), other))
    /\ Call("update", t, other, CallBackDictUpdate(Target(t), other))

\* m.pop(key) on a CallBackDict
DictPopCall(t, key) ==
    /\ t \in Targets("dict")
    /\ Target(t).cb # ""
    /\ Call("pop", t, NoneValue, CallBackDictPop(Target(t), key))

\* m.clear() on a CallBackDict
DictClearCall(t) ==
    /\ t \in Targets("dict")
    /\ Target(t).cb # ""
    /\ Call("clear", t, NoneValue, CallBackDictClear(Target(t)))

\* del m[key] on a CallBackDict
DictDelItemCall(t, key) ==
    /\ t \in Targets("dict")
    /\ Target(t).cb # ""
    /\ Call("delitem", t, NoneValue, PyDictDelItem(Target(t), key))

\* l[index] = val on a CallBackList
ListSetItemCall(t, index, val) ==
    /\ t \in Targets("list")
    /\ Target(t).cb # ""
    /\ Call("setitem", t, val, CallBackListSetItem(Target(t), index, val))

\* l.append(val) on a CallBackList
ListAppendCall(t, val) ==
    /\ t \in Targets("list")
    /\ Target(t).cb # ""
    /\ Fits(CallBackListAppend(Target(t), val))
    /\ Call("append", t, val, CallBackListAppend(Target(t), val))

\* l.extend(iterable) on a CallBackList
ListExtendCall(t, iterable) ==
    /\ t \in Targets("list")
    /\ Target(t).cb # ""
    /\ Fits(CallBackListExtend(Target(t), iterable))
    /\ Call("extend", t, iterable, CallBackListExtend(Target(t), iterable))

\* l.insert(index, val) on a CallBackList
ListInsertCall(t, index, val) ==
    /\ t \in Targets("list")
    /\ Target(t).cb # ""
    /\ Fits(CallBackListInsert(Target(t), index, val))
    /\ Call("insert", t, val, CallBackListInsert(Target(t), index, val))

\* l.remove(value) on a CallBackList
ListRemoveCall(t, value) ==
    /\ t \in Targets("list")
    /\ Target(t).cb # ""
    /\ Call("remove", t, NoneValue, CallBackListRemove(Target(t), value))

\* l.pop(index) on a CallBackList
ListPopCall(t, index) ==
    /\ t \in Targets("list")
    /\ Target(t).cb # ""
    /\ Call("pop", t, NoneValue, CallBackListPop(Target(t), index))

\* l.sort(reverse=reverse) on a CallBackList of leaves
ListSortCall(t, reverse) ==
    /\ t \in Targets("list")
    /\ Target(t).cb # ""
    /\ \A i \in DOMAIN Target(t).items : Target(t).items[i].py = "str"
    /\ Call("sort", t, NoneValue, CallBackListSort(Target(t), reverse))

\* del l[index] on a CallBackList
ListDelItemCall(t, index) ==
    /\ t \in Targets("list")
    /\ Target(t).cb # ""
    /\ Call("delitem", t, NoneValue, PyListDelItem(Target(t), index))

\* l.clear() on a CallBackList
ListClearCall(t) ==
    /\ t \in Targets("list")
    /\ Target(t).cb # ""
    /\ Call("clear", t, NoneValue, PyListClear(Target(t)))

NextObs ==
    \/ \E x \in Structures : RoundTrip(x)
    \/ \E t \in 0..MaxItems, k \in ObsKeys, v \in Inserted : DictSetItemCall(t, k, v)
    \/ \E t \in 0..MaxItems, other \in Updates : DictUpdateCall(t, other)
    \/ \E t \in 0..MaxItems, k \in ObsKeys : DictPopCall(t, k)
    \/ \E t \in 0..MaxItems : DictClearCall(t)
    \/ \E t \in 0..MaxItems, k \in ObsKeys : DictDelItemCall(t, k)
    \/ \E t \in 0..MaxItems, i \in ObsIndices, v \in Inserted : ListSetItemCall(t, i, v)
    \/ \E t \in 0..MaxItems, v \in Inserted : ListAppendCall(t, v)
    \/ \E t \in 0..MaxItems, vs \in Extensions : ListExtendCall(t, vs)
    \/ \E t \in 0..MaxItems, i \in {0, 1}, v \in Inserted : ListInsertCall(t, i, v)
    \/ \E t \in 0..MaxItems, v \in {Atom("1"), Atom("2")} : ListRemoveCall(t, v)
    \/ \E t \in 0..MaxItems, i \in ObsIndices : ListPopCall(t, i)
    \/ \E t \in 0..MaxItems, reverse \in BOOLEAN : ListSortCall(t, reverse)
    \/ \E t \in 0..MaxItems, i \in ObsIndices : ListDelItemCall(t, i)
    \/ \E t \in 0..MaxItems : ListClearCall(t)

(***************************************************************************)
(* SpecAdd: Scene.add_layers on layer objects, one pass of its while loop  *)
(* at a time (nglscenes/scenes.py).  A layer object has an identity: the   *)
(* program may pass an object the scene holds already, or one object       *)
(* twice in a call, and a write to the object is seen wherever it is held. *)
(***************************************************************************)
\* The layers the scene holds, in its order.
HeldLayers == [k \in DOMAIN held |-> objs[held[k]]]

\* The layer objects the program made and the argument lists it passes.
MadeObjects ==
    <<ImageLayer("s1", [name |-> "x"]), ImageLayer("s2", [name |-> "x"]),
      AnnotationLayer("s1", [name |-> "img"])>>

ArgumentLists ==
    {<<a>> : a \in DOMAIN MadeObjects} \cup {<<a, b>> : a, b \in DOMAIN MadeObjects}

\* No add_layers call is in progress; n counts the calls made.
Idle == [pc |-> "idle", args |-> <<>>, org_name |-> "", i |-> 2, n |-> 0]

InitAdd ==
    /\ objs = MadeObjects
    /\ held = <<>>
    /\ adding = Idle

\* scene.add_layers(*args) is called: the for loop takes the first layer,
\* sets i = 2 and org_name = str(l.name).
StartAdd(args) ==
    /\ adding.pc = "idle"
    /\ adding.n < MaxAdds
    /\ Len(held) + Len(args) <= MaxHeld
    /\ adding' = [pc |-> "while", args |-> args, org_name |-> LayerName(objs[Head(args)]),
                  i |-> 2, n |-> adding.n + 1]
    /\ UNCHANGED <<objs, held>>
    /\ UNCHANGED restOfAdd

\* One test of "while l['name'] in self.layers" with its body: the layer is
\* renamed to "{org_name}-{i}" and i grows by one.
WhileBody ==
    /\ adding.pc = "while"
    /\ adding.i <= MaxSuffix
    /\ Contains(HeldLayers, LayerName(objs[Head(adding.args)]))
    /\ objs' = [objs EXCEPT ![Head(adding.args)] =
                    LayerSetItem(@, "name", Suffixed(adding.org_name, adding.i))]
    /\ adding' = [adding EXCEPT !.i = @ + 1]
    /\ UNCHANGED held
    /\ UNCHANGED restOfAdd

\* The while test fails: the layer is appended, and the for loop takes the
\* next layer or add_layers returns.
WhileExit ==
    /\ adding.pc = "while"
    /\ ~Contains(HeldLayers, LayerName(objs[Head(adding.args)]))
    /\ held' = Append(held, Head(adding.args))
    /\ adding' = IF Tail(adding.args) = <<>> THEN [Idle EXCEPT !.n = adding.n]
                 ELSE [pc |-> "while", args |-> Tail(adding.args),
                       org_name |-> LayerName(objs[adding.args[2]]), i |-> 2,
                       n |-> adding.n]
    /\ UNCHANGED objs
    /\ UNCHANGED restOfAdd

\* scene.drop_layer(which) with an index the scene has
DropHeld(which) ==
    /\ adding.pc = "idle"
    /\ which < Len(held)
    /\ held' = ListWithout(held, which)
    /\ UNCHANGED <<objs, adding>>
    /\ UNCHANGED restOfAdd

NextAdd ==
    \/ \E args \in ArgumentLists : StartAdd(args)
    \/ WhileBody
    \/ WhileExit
    \/ \E which \in 0..(MaxHeld - 1) : DropHeld(which)

(***************************************************************************)
(* SpecParse: a Scene written out with to_json and make_url and read back  *)
(* with Scene.from_string, and parse_layers (nglscenes/scenes.py,          *)
(* nglscenes/utils.py).  A Python string is a sequence of tokens: words,   *)
(* and "squote", "dquote", "bslash" and "space" for the characters ', ",   *)
(* \ and the blank; <<"bool:True">> is the Python value True.  A document  *)
(* is the state of a scene and the states of its layers; a text is a       *)
(* document whose values are JSON literals.                                *)
(***************************************************************************)
\* The number of from_string and parse_layers calls of a program.
MaxParse == 1

PyTrue == <<"bool:True">>

\* The keys whose values are not strings: a list of numerals and a dict.
StructuredKeys == {"segments", "shaderControls"}

\* The state of a layer with each string value as a sequence of tokens.
TokenState(state) ==
    [k \in DOMAIN state |-> IF k \in StructuredKeys THEN state[k] ELSE <<state[k]>>]

\* The document d with F applied to each string value.
MapDoc(d, F(_)) ==
    [state |-> [k \in DOMAIN d.state |-> F(d.state[k])],
     layers |-> [i \in DOMAIN d.layers |->
                    [k \in DOMAIN d.layers[i] |->
                        IF k \in StructuredKeys THEN d.layers[i][k]
                        ELSE F(d.layers[i][k])]]]

\* Some string value of the document d satisfies P.
SomeValue(d, P(_)) ==
    \/ \E k \in DOMAIN d.state : P(d.state[k])
    \/ \E i \in DOMAIN d.layers :
           \E k \in (DOMAIN d.layers[i]) \ StructuredKeys : P(d.layers[i][k])

RECURSIVE JsonEscape(_)
\* The body of the JSON literal of a string: " and \ get a \ in front.
JsonEscape(s) ==
    IF s = <<>> THEN <<>>
    ELSE (IF Head(s) \in {"dquote", "bslash"} THEN <<"bslash", Head(s)>> ELSE <<Head(s)>>)
             \o JsonEscape(Tail(s))

\* json.dumps of a value: true for True, a literal in double quotes for a
\* string.
JsonDumps(v) ==
    IF v = PyTrue THEN <<"true">> ELSE <<"dquote">> \o JsonEscape(v) \o <<"dquote">>

\* .replace("'", '"').replace("True", "true").replace("False", "false") on a
\* piece of the JSON text.
ReplaceToken(t) ==
    CASE t = "squote" -> "dquote"
      [] t = "True" -> "true"
      [] t = "False" -> "false"
      [] OTHER -> t

Replaced(text) == [i \in DOMAIN text |-> ReplaceToken(text[i])]

\* Scene.as_dict(): the state with the states of the layers under "layers".
AsDict(sc) ==
    [state |-> sc.state, layers |-> [i \in DOMAIN sc.layers |-> sc.layers[i].state]]

\* Scene.to_json(): json.dumps of as_dict(), then the three replacements.
ToJson(sc) == MapDoc(MapDoc(AsDict(sc), JsonDumps), Replaced)

\* urllib.parse.quote and unquote on a piece of text.
QuoteToken(t) ==
    CASE t = "dquote" -> "%22"
      [] t = "bslash" -> "%5C"
      [] t = "space" -> "%20"
      [] t = "squote" -> "%27"
      [] OTHER -> t

UnquoteToken(t) ==
    CASE t = "%22" -> "dquote"
      [] t = "%5C" -> "bslash"
      [] t = "%20" -> "space"
      [] t = "%27" -> "squote"
      [] OTHER -> t

Quote(text) == [i \in DOMAIN text |-> QuoteToken(text[i])]

Unquote(text) == [i \in DOMAIN text |-> UnquoteToken(text[i])]

\* What Scene.from_string is given: a URL (its part before # and the text
\* of its fragment after "#!"), a JSON text, or a dict.
UrlInput(base, text) == [form |-> "url", base |-> base, doc |-> text]

TextInput(text) == [form |-> "text", base |-> "", doc |-> text]

DictInput(d) == [form |-> "dict", base |-> "", doc |-> d]

\* Scene.make_url(): utils.make_url(base_url, "#!" + quote(to_json())).
SceneMakeUrl(sc) == UrlInput(sc.base_url, MapDoc(ToJson(sc), Quote))

\* utils.is_url: urlparse finds a scheme, a host and a path.  A JSON text
\* starts with a brace and has no scheme.
IsUrl(x) == x.form = "url"

RECURSIVE WellFormed(_)
\* The body of a JSON string literal: no " without a \ in front, and no
\* \ that escapes nothing.
WellFormed(body) ==
    IF body = <<>> THEN TRUE
    ELSE IF Head(body) = "dquote" THEN FALSE
    ELSE IF Head(body) = "bslash"
    THEN Len(body) >= 2 /\ body[2] \in {"dquote", "bslash"}
             /\ WellFormed(Tail(Tail(body)))
    ELSE WellFormed(Tail(body))

RECURSIVE JsonUnescape(_)
JsonUnescape(body) ==
    IF body = <<>> THEN <<>>
    ELSE IF Head(body) = "bslash" THEN <<body[2]>> \o JsonUnescape(Tail(Tail(body)))
    ELSE <<Head(body)>> \o JsonUnescape(Tail(body))

\* json.loads accepts the literal.
Decodable(lit) ==
    \/ lit = <<"true">>
    \/ /\ Len(lit) >= 2
       /\ Head(lit) = "dquote"
       /\ lit[Len(lit)] = "dquote"
       /\ WellFormed(SubSeq(lit, 2, Len(lit) - 1))

Undecodable(lit) == ~Decodable(lit)

\* json.loads of a literal that it accepts.
JsonLoads(lit) ==
    IF lit = <<"true">> THEN PyTrue ELSE JsonUnescape(SubSeq(lit, 2, Len(lit) - 1))

\* The outcome of a parse: the exception raised, the parsed value, and
\* whether the value is a str (a text that was not decoded).
Parsed(exc, kind, doc) == [exc |-> exc, kind |-> kind, doc |-> doc]

EmptyDoc == [state |-> <<>>, layers |-> <<>>]

\* utils.parse_json_scene(scene): a dict is returned as it is; the fragment
\* of a URL is unquoted and decoded by json.loads; any other str is
\* returned as it is.
ParseJsonScene(x) ==
    IF x.form = "dict" THEN Parsed(None, "dict", x.doc)
    ELSE IF IsUrl(x)
    THEN LET text == MapDoc(x.doc, Unquote)
         IN  IF SomeValue(text, Undecodable) THEN Parsed("JSONDecodeError", "none", EmptyDoc)
             ELSE Parsed(None, "dict", MapDoc(text, JsonLoads))
    ELSE Parsed(None, "str", x.doc)

\* LAYER_FACTORY: the class of a layer record's type.
LayerFactory ==
    [segmentation |-> "SegmentationLayer", mesh |-> "MeshLayer",
     image |-> "ImageLayer", annotation |-> "AnnotationLayer"]

\* DEFAULTS of the class c.
DefaultsOf(c) ==
    CASE c = "SegmentationLayer" -> SegmentationDefaults
      [] c = "MeshLayer" -> MeshDefaults
      [] c = "ImageLayer" -> ImageDefaults
      [] c = "AnnotationLayer" -> AnnotationDefaults

\* layer.get("type", "NA") as a key of LAYER_FACTORY
TypeOf(layer) ==
    IF "type" \in DOMAIN layer /\ Len(layer["type"]) = 1 THEN layer["type"][1] ELSE "NA"

\* The outcome of parse_layers: the exception raised, and the layers
\* returned, none for None and for an empty list.
Layers(exc, ls) == [exc |-> exc, layers |-> ls]

\* LAYER_FACTORY[ty](**layer): source is a required argument; the state is
\* DEFAULTS, then source, then the other keys of the record.
FactoryCall(layer) ==
    IF "source" \notin DOMAIN layer THEN Layers("TypeError", <<>>)
    ELSE Layers(None, <<[type |-> LayerFactory[TypeOf(layer)],
                         state |-> DictUpdate(TokenState(DefaultsOf(LayerFactory[TypeOf(layer)])),
                                              layer)]>>)

\* layer.get("archived", False)
Archived(layer) == "archived" \in DOMAIN layer /\ layer["archived"] = PyTrue

\* parse_layers(layer, skip_unknown, skip_archived) for a dict
ParseLayer(layer, skip_unknown, skip_archived) ==
    IF Archived(layer) /\ skip_archived THEN Layers(None, <<>>)
    ELSE IF TypeOf(layer) \notin DOMAIN LayerFactory
    THEN IF skip_unknown THEN Layers(None, <<>>) ELSE Layers("ValueError", <<>>)
    ELSE FactoryCall(layer)

RECURSIVE ParseLayers(_, _, _)
\* parse_layers(layer, skip_unknown, skip_archived) for a list: each record
\* is parsed by parse_layers(l), with the default flags, and the None
\* results are dropped.
ParseLayers(layer, skip_unknown, skip_archived) ==
    IF layer = <<>> THEN Layers(None, <<>>)
    ELSE LET first == ParseLayer(Head(layer), FALSE, TRUE)
             rest == ParseLayers(Tail(layer), skip_unknown, skip_archived)
         IN  IF first.exc # None THEN first
             ELSE IF rest.exc # None THEN rest
             ELSE Layers(None, first.layers \o rest.layers)

RECURSIVE TokenUniqueName(_, _, _, _)
\* The while loop of add_layers for a name held as tokens.
TokenUniqueName(layers, org, cur, i) ==
    IF Contains(layers, cur)
    THEN TokenUniqueName(layers, org, org \o <<"-", ToString(i)>>, i + 1)
    ELSE cur

RECURSIVE AddParsedTo(_, _)
\* x.add_layers(*new) on the layers of the new scene
AddParsedTo(layers, new) ==
    IF new = <<>> THEN layers
    ELSE LET l == Head(new)
             nm == TokenUniqueName(layers, l.state.name, l.state.name, 2)
         IN  AddParsedTo(Append(layers, [l EXCEPT !.state.name = nm]), Tail(new))

\* A scene: its base URL, its state and its layers.
PlainScene(base_url, state, ls) == [base_url |-> base_url, state |-> state, layers |-> ls]

DefaultBaseUrl == "https://neuroglancer-demo.appspot.com/"

\* The outcome of from_string: the exception raised and the scene built.
Outcome2(exc, sc) == [exc |-> exc, scene |-> sc]

\* Scene.from_string(string): the layers of the document are parsed and
\* added to a new scene, whose state is updated with the rest of the
\* document.  A str that parse_json_scene returned has no pop method.
FromString(string) ==
    LET parsed_state == ParseJsonScene(string)
        base == IF IsUrl(string) THEN string.base ELSE DefaultBaseUrl
        ls == ParseLayers(parsed_state.doc.layers, FALSE, TRUE)
    IN  IF parsed_state.exc # None
        THEN Outcome2(parsed_state.exc, PlainScene(DefaultBaseUrl, <<>>, <<>>))
        ELSE IF parsed_state.kind = "str"
        THEN Outcome2("AttributeError", PlainScene(DefaultBaseUrl, <<>>, <<>>))
        ELSE IF ls.exc # None
        THEN Outcome2(ls.exc, PlainScene(DefaultBaseUrl, <<>>, <<>>))
        ELSE Outcome2(None, PlainScene(base, parsed_state.doc.state,
                                        AddParsedTo(<<>>, ls.layers)))

\* The strings the fields of the scenes hold.
Strings ==
    {<<"a">>, <<"True">>, <<"False", "space", "alarm">>, <<"it", "squote", "s">>,
     <<"say", "space", "dquote", "hi", "dquote">>, <<"true">>}

\* A layer of each class, under the name nm.
OneOfEach(nm) ==
    <<[type |-> "ImageLayer",
       state |-> DictSet(TokenState(ImageLayer("s1", <<>>).state), "name", nm)],
      [type |-> "SegmentationLayer",
       state |-> TokenState(SegmentationLayer("s1", [segments |-> PyList(<<"1", "2">>)]).state)],
      [type |-> "AnnotationLayer", state |-> TokenState(AnnotationLayer("s1", <<>>).state)],
      [type |-> "MeshLayer", state |-> TokenState(MeshLayer("s1", <<>>).state)]>>

\* The scenes the program builds.
BuiltScenes ==
    {PlainScene(b, st, ls) :
        b \in {DefaultBaseUrl, "https://my.host/ng/"},
        st \in {<<>>} \cup {[title |-> s] : s \in Strings} \cup {[showSlices |-> PyTrue]},
        ls \in {<<>>} \cup {OneOfEach(nm) : nm \in Strings}}

\* The layer records parse_layers is given.
Records ==
    {[type |-> <<"image">>, source |-> <<"s1">>, name |-> <<"a">>],
     [type |-> <<"image">>, source |-> <<"s1">>, name |-> <<"b">>, archived |-> PyTrue],
     [type |-> <<"new">>, source |-> <<"s1">>, name |-> <<"n">>],
     [source |-> <<"s1">>, name |-> <<"n">>],
     [type |-> <<"mesh">>, name |-> <<"m">>]}

RecordLists ==
    {<<>>} \cup {<<r>> : r \in Records} \cup {<<r, q>> : r \in Records, q \in Records}

InitParse ==
    /\ built = PlainScene(DefaultBaseUrl, <<>>, <<>>)
    /\ parsed = Outcome2(None, PlainScene(DefaultBaseUrl, <<>>, <<>>))
    /\ parseEv = [op |-> "init", form |-> "none", skip_unknown |-> FALSE,
                  skip_archived |-> TRUE, records |-> <<>>, n |-> 0]

\* The calls the program makes are counted in n.
ParseEvent(name, form, skip_unknown, skip_archived, records) ==
    [op |-> name, form |-> form, skip_unknown |-> skip_unknown,
     skip_archived |-> skip_archived, records |-> records, n |-> parseEv.n + 1]

\* parsed = Scene.from_string(sc.make_url()) for a scene sc the program built
FromUrl(sc) ==
    /\ parseEv.n < MaxParse
    /\ built' = sc
    /\ parsed' = FromString(SceneMakeUrl(sc))
    /\ parseEv' = ParseEvent("from_string", "url", FALSE, TRUE, <<>>)
    /\ UNCHANGED restOfParse

\* parsed = Scene.from_string(sc.to_json())
FromJson(sc) ==
    /\ parseEv.n < MaxParse
    /\ built' = sc
    /\ parsed' = FromString(TextInput(ToJson(sc)))
    /\ parseEv' = ParseEvent("from_string", "text", FALSE, TRUE, <<>>)
    /\ UNCHANGED restOfParse

\* parsed = Scene.from_string(sc.as_dict())
FromDict(sc) ==
    /\ parseEv.n < MaxParse
    /\ built' = sc
    /\ parsed' = FromString(DictInput(AsDict(sc)))
    /\ parseEv' = ParseEvent("from_string", "dict", FALSE, TRUE, <<>>)
    /\ UNCHANGED restOfParse

\* parsed holds parse_layers(record, skip_unknown, skip_archived)
ParseOneRecord(record, skip_unknown, skip_archived) ==
    /\ parseEv.n < MaxParse
    /\ LET r == ParseLayer(record, skip_unknown, skip_archived)
       IN  parsed' = Outcome2(r.exc, PlainScene(DefaultBaseUrl, <<>>, r.layers))
    /\ parseEv' = ParseEvent("parse_layers", "dict", skip_unknown, skip_archived,
                             <<record>>)
    /\ UNCHANGED built
    /\ UNCHANGED restOfParse

\* parsed holds parse_layers(records, skip_unknown, skip_archived)
ParseRecordList(records, skip_unknown, skip_archived) ==
    /\ parseEv.n < MaxParse
    /\ LET r == ParseLayers(records, skip_unknown, skip_archived)
       IN  parsed' = Outcome2(r.exc, PlainScene(DefaultBaseUrl, <<>>, r.layers))
    /\ parseEv' = ParseEvent("parse_layers", "list", skip_unknown, skip_archived,
                             records)
    /\ UNCHANGED built
    /\ UNCHANGED restOfParse

NextParse ==
    \/ \E sc \in BuiltScenes : FromUrl(sc)
    \/ \E sc \in BuiltScenes : FromJson(sc)
    \/ \E sc \in BuiltScenes : FromDict(sc)
    \/ \E r \in Records, skip_unknown \in BOOLEAN, skip_archived \in BOOLEAN :
           ParseOneRecord(r, skip_unknown, skip_archived)
    \/ \E rs \in RecordLists, skip_unknown \in BOOLEAN, skip_archived \in BOOLEAN :
           ParseRecordList(rs, skip_unknown, skip_archived)

(***************************************************************************)
(* SpecScene: a plain Scene.                                               *)
(***************************************************************************)
\* The layers the calls are made with.
SampleLayers ==
    {ImageLayer("s1", <<>>),
     SegmentationLayer("s1", [segments |-> PyList(<<"1", "2">>), name |-> "x"]),
     SegmentationLayer(FlyWireSource, [name |-> "x"]),
     FlyWireSegmentationLayer([name |-> "x"]),
     AnnotationLayer("s1", [name |-> "img"])}

\* The layers SpecScene adds: two names, one of them on layers of two classes.
ManagerLayers ==
    {ImageLayer("s1", <<>>),
     SegmentationLayer("s1", [segments |-> PyList(<<"1", "2">>), name |-> "x"]),
     AnnotationLayer("s1", [name |-> "x"])}

\* The names a held layer is renamed to, and the names drop_layer is asked for.
SampleNames == {"x", "img"}

\* The index arguments of add_layers.
SampleIndexes == {NoIndex, <<0>>, <<1>>}

\* The layers of the right operands of + and |.
OtherLayers ==
    {ImageLayer("s1", [blend |-> "additive"]),
     SegmentationLayer("s1", [segments |-> PyList(<<"2", "3">>), name |-> "x"]),
     FlyWireSegmentationLayer([name |-> "x"]),
     AnnotationLayer("s1", [name |-> "img"])}

\* The right operands of + and |: the scenes add_layers builds from none,
\* one and two of these layers.
OtherScenes ==
    {AddLayersTo(<<>>, ls, NoIndex) :
        ls \in {<<>>} \cup {<<a>> : a \in OtherLayers}
                 \cup {<<a, b>> : a \in OtherLayers, b \in OtherLayers}}

NoArg == <<>>

InitScene ==
    /\ sceneLayers = <<>>
    /\ renamed = FALSE
    /\ ret = None
    /\ op = [name |-> "init", by |-> None, arg |-> NoArg, exc |-> None]

\* The program has made its last call.
Done == op.name \in {"add", "or"}

\* scene.add_layers(l, index=index), made while the scene holds fewer than
\* max layers
AddLayers(l, index, max) ==
    /\ ~Done
    /\ Len(sceneLayers) < max
    /\ sceneLayers' = AddLayersTo(sceneLayers, <<l>>, index)
    /\ ret' = None
    /\ op' = [name |-> "add_layers", by |-> None, arg |-> <<l, index>>, exc |-> None]
    /\ UNCHANGED renamed
    /\ UNCHANGED restOfScene

\* DropLayerByName with self._layers.pop() in the place of
\* self._layers.pop(ix): the last layer is removed and returned.
DropLayerByNameLast(which) ==
    /\ ~Done
    /\ IF ~Contains(sceneLayers, which)
       THEN /\ op' = [name |-> "drop_layer", by |-> "name", arg |-> <<which>>, exc |-> "ValueError"]
            /\ ret' = None
            /\ UNCHANGED sceneLayers
       ELSE /\ op' = [name |-> "drop_layer", by |-> "name", arg |-> <<which>>, exc |-> None]
            /\ ret' = sceneLayers[Len(sceneLayers)]
            /\ sceneLayers' = SubSeq(sceneLayers, 1, Len(sceneLayers) - 1)
    /\ UNCHANGED renamed
    /\ UNCHANGED restOfScene

\* scene.drop_layer(which) with a name
DropLayerByName(which) ==
    /\ ~Done
    /\ IF ~Contains(sceneLayers, which)
       THEN /\ op' = [name |-> "drop_layer", by |-> "name", arg |-> <<which>>, exc |-> "ValueError"]
            /\ ret' = None
            /\ UNCHANGED sceneLayers
       ELSE LET ix == CHOOSE i \in LayersNamed(sceneLayers, which) :
                          \A j \in LayersNamed(sceneLayers, which) : i <= j
            IN  /\ op' = [name |-> "drop_layer", by |-> "name", arg |-> <<which>>, exc |-> None]
                /\ ret' = sceneLayers[ix]
                /\ sceneLayers' = ListWithout(sceneLayers, ix - 1)
    /\ UNCHANGED renamed
    /\ UNCHANGED restOfScene

\* scene.drop_layer(which) with an index 0 <= which
DropLayerByIndex(which) ==
    /\ ~Done
    /\ IF Len(sceneLayers) <= which
       THEN /\ op' = [name |-> "drop_layer", by |-> "index", arg |-> <<which>>, exc |-> "ValueError"]
            /\ ret' = None
            /\ UNCHANGED sceneLayers
       ELSE /\ op' = [name |-> "drop_layer", by |-> "index", arg |-> <<which>>, exc |-> None]
            /\ ret' = sceneLayers[which + 1]
            /\ sceneLayers' = ListWithout(sceneLayers, which)
    /\ UNCHANGED renamed
    /\ UNCHANGED restOfScene

\* scene.layers[i - 1]['name'] = v on a layer the scene holds
RenameLayer(i, v) ==
    /\ ~Done
    /\ i \in DOMAIN sceneLayers
    /\ sceneLayers' = [sceneLayers EXCEPT ![i] = LayerSetItem(@, "name", v)]
    /\ renamed' = TRUE
    /\ ret' = None
    /\ op' = [name |-> "setitem", by |-> None, arg |-> <<i, v>>, exc |-> None]
    /\ UNCHANGED restOfScene

\* x = scene + other, the program's last call
Concat(other) ==
    /\ ~Done
    /\ ret' = SceneAdd(sceneLayers, other)
    /\ op' = [name |-> "add", by |-> None, arg |-> other, exc |-> None]
    /\ UNCHANGED <<sceneLayers, renamed>>
    /\ UNCHANGED restOfScene

\* x = scene | other, the program's last call
Merge(other) ==
    /\ ~Done
    /\ LET r == SceneOr(sceneLayers, other)
       IN  /\ ret' = IF r.exc = None THEN r.layers ELSE None
           /\ op' = [name |-> "or", by |-> None, arg |-> other, exc |-> r.exc]
    /\ UNCHANGED <<sceneLayers, renamed>>
    /\ UNCHANGED restOfScene

NextScene ==
    \/ \E l \in ManagerLayers, index \in SampleIndexes : AddLayers(l, index, MaxLayers)
    \/ \E which \in SampleNames : DropLayerByName(which)
    \/ \E which \in 0..MaxLayers : DropLayerByIndex(which)
    \/ \E i \in 1..MaxLayers : RenameLayer(i, "x")

\* A plain Scene, beside a LocalScene on which no call is made.
InitPlain ==
    InitScene /\ InitLocal(TRUE) /\ InitLayer /\ InitCopy /\ InitObs /\ InitParse /\ InitAdd

SpecScene == InitPlain /\ [][NextScene]_vars

NextCombine ==
    \/ \E l \in SampleLayers : AddLayers(l, NoIndex, MaxLeft)
    \/ \E i \in 1..MaxLeft : RenameLayer(i, "x")
    \/ \E other \in OtherScenes : Concat(other)
    \/ \E other \in OtherScenes : Merge(other)

SpecCombine == InitPlain /\ [][NextCombine]_vars

SpecLayer == InitPlain /\ [][NextLayer]_vars

SpecCopy == InitPlain /\ [][NextCopy]_vars

SpecObs == InitPlain /\ [][NextObs]_vars

SpecParse == InitPlain /\ [][NextParse]_vars

\* add_layers runs on: a pass of its loop that can be made is made.
SpecAdd == InitPlain /\ [][NextAdd]_vars /\ WF_vars(NextAdd)

\* The layers, writes and record names of SpecSync.
SyncSamples == {ImageLayer("s1", <<>>), LocalSkeletonLayer("s1", [name |-> "x"])}

SyncWrites == {<<"blend", "additive">>, <<"name", "x">>, <<"source", "s2">>}

NextSync ==
    \/ \E l \in SyncSamples : LocalAddLayers(l)
    \/ \E which \in SampleNames : LocalDropLayer(which)
    \/ \E i \in 1..MaxLocal, w \in SyncWrites : LayerWrite(i, w[1], w[2])
    \/ \E w \in SyncWrites : DroppedWrite(w[1], w[2])
    \/ \E i \in 1..MaxLocal, ok \in BOOLEAN : LayerPush(i, ok)
    \/ \E i \in 1..MaxLocal : LayerPull(i)
    \/ \E name \in SampleNames : RemoteAddLayer(name)
    \/ \E i \in 1..MaxRemote, w \in RemoteWrites : RemoteSetLayer(i, w[1], w[2])
    \/ \E i \in 1..MaxLocal : LayerNestedWrite(i, "shaderControls", "x", "1")

\* A LocalScene and its layers under calls on the layers, beside another
\* writer on the viewer's document; no BundleUpdates.
SpecSync == InitPlain /\ [][NextSync]_vars

NextOwn ==
    \/ \E l \in SyncSamples : LocalAddLayers(l)
    \/ \E which \in SampleNames : LocalDropLayer(which)
    \/ \E i \in 1..MaxLocal, w \in SyncWrites : LayerWrite(i, w[1], w[2])
    \/ \E i \in 1..MaxLocal : LayerStatePop(i, "blend")
    \/ \E i \in 1..MaxLocal : LayerPull(i)

\* A LocalScene under add_layers, drop_layer and writes to its layers, the
\* only writer on the viewer's document; no BundleUpdates.
SpecOwn == InitPlain /\ [][NextOwn]_vars

Init ==
    /\ InitScene /\ InitLayer /\ InitCopy /\ InitObs /\ InitParse /\ InitAdd
    /\ \E auto \in BOOLEAN : InitLocal(auto)

Next ==
    \/ Enter
    \/ \E body \in {None, "KeyError"} : Exit(body, TRUE)
    \/ \E body \in {None, "KeyError"} : Exit(body, FALSE)
    \/ \E l \in LocalSamples : LocalAddLayers(l)
    \/ \E which \in SampleNames : LocalDropLayer(which)
    \/ \E i \in 1..MaxLocal, w \in LayerWrites : LayerWrite(i, w[1], w[2])
    \/ SceneWrite("xy")
    \/ \E i \in 1..MaxLocal, ok \in BOOLEAN : LayerPush(i, ok)
    \/ \E i \in 1..MaxLocal : LayerPull(i)
    \/ \E exclude_layers \in BOOLEAN, ignore_lock \in BOOLEAN, ok \in BOOLEAN :
           ScenePush(exclude_layers, ignore_lock, ok)
    \/ ScenePull
    \/ RemoteSetScene
    \/ \E i \in 1..MaxLocal, w \in RemoteWrites : RemoteSetLayer(i, w[1], w[2])

Spec == Init /\ [][Next]_vars

(***************************************************************************)
(* Claims about scene + other and scene | other (SpecCombine) and about    *)
(* the layer manager (SpecScene).                                          *)
(***************************************************************************)
\* Some layer of ls has the name nm.
NameTaken(ls, nm) == \E i \in DOMAIN ls : DictGet(ls[i].state, "name") = nm

\* The state of a layer without its name.
Unnamed(l) == [k \in (DOMAIN l.state) \ {"name"} |-> l.state[k]]

\* a and b are the same layer up to the name.
SameButName(a, b) == a.type = b.type /\ Unnamed(a) = Unnamed(b)

\* A scene that holds one layer, of class cls.
HoldsOne(ls, cls) == Len(ls) = 1 /\ ls[1].type = cls

\* C5 (as claimed): for scenes A and B that hold one segmentation layer each,
\* with equal source, A | B holds one segmentation layer whose segments are
\* the union of the two layers' segments; with different sources A | B holds
\* both layers, B's appended.
C5_SegmentsUnion ==
    (/\ op.name = "or"
     /\ HoldsOne(sceneLayers, "SegmentationLayer")
     /\ HoldsOne(op.arg, "SegmentationLayer"))
    => /\ op.exc = None
       /\ IF sceneLayers[1].state["source"] = op.arg[1].state["source"]
          THEN /\ Len(ret) = 1
               /\ ret[1].type = "SegmentationLayer"
               /\ SeqToSet(ret[1].state["segments"].items)
                      = SeqToSet(sceneLayers[1].state["segments"].items)
                            \cup SeqToSet(op.arg[1].state["segments"].items)
          ELSE /\ Len(ret) = 2
               /\ ret[1] = sceneLayers[1]
               /\ SameButName(ret[2], op.arg[1])

\* C6 (as claimed): for scenes A and B that hold one image layer each, with
\* the same source and the same name, A | B holds one image layer whose
\* fields are A's layer's fields overlaid with B's layer's fields.
C6_ImageOverlay ==
    (/\ op.name = "or"
     /\ HoldsOne(sceneLayers, "ImageLayer")
     /\ HoldsOne(op.arg, "ImageLayer")
     /\ sceneLayers[1].state["source"] = op.arg[1].state["source"]
     /\ LayerName(sceneLayers[1]) = LayerName(op.arg[1]))
    => /\ op.exc = None
       /\ Len(ret) = 1
       /\ ret[1].type = "ImageLayer"
       /\ ret[1].state = DictUpdate(sceneLayers[1].state, op.arg[1].state)

\* a is a merge partner of b: the exact same concrete class, of kind Image
\* or Segmentation, with equal source.
Partner(a, b) ==
    /\ a.type = b.type
    /\ IsInstance(a.type, "ImageLayer") \/ IsInstance(a.type, "SegmentationLayer")
    /\ a.state["source"] = b.state["source"]

\* The layers of B that find no merge partner in A | B: none in A and, as
\* the result holds B's earlier layers that were appended, none before it in B.
Unmatched(A, B) ==
    {j \in DOMAIN B :
        /\ \A i \in DOMAIN A : ~Partner(A[i], B[j])
        /\ \A i \in 1..(j - 1) : ~Partner(B[i], B[j])}

C8_Concat ==
    op.name = "add"
    => /\ Len(ret) = Len(sceneLayers) + Len(op.arg)
       /\ SubSeq(ret, 1, Len(sceneLayers)) = sceneLayers
       /\ \A j \in DOMAIN op.arg :
              LET b == op.arg[j]
                  r == ret[Len(sceneLayers) + j]
                  before == SubSeq(ret, 1, Len(sceneLayers) + j - 1)
              IN  /\ SameButName(r, b)
                  /\ IF NameTaken(before, LayerName(b))
                     THEN \E n \in 2..(Len(before) + 2) :
                              LayerName(r) = Suffixed(LayerName(b), n)
                     ELSE LayerName(r) = LayerName(b)

\* The names of the layers of ls are pairwise distinct.
NamesDistinct(ls) ==
    \A i, j \in DOMAIN ls : LayerName(ls[i]) = LayerName(ls[j]) => i = j

\* C9: while no held layer was renamed after its insertion, the names of the
\* layers the scene holds are pairwise distinct.
C9_UniqueNames == ~renamed => NamesDistinct(sceneLayers)

\* C9's case: add_layers has resolved two collisions and drop_layer has
\* removed a layer since.
C9_Witness ==
    /\ ~renamed
    /\ op.name = "drop_layer"
    /\ op.exc = None
    /\ Len(sceneLayers) = 2
    /\ NameTaken(sceneLayers, "x-3")

\* The name C10 claims for an incoming layer named org: org when no held
\* layer has it, else "{org}-{n}" for the smallest n >= 2 no held layer has.
ClaimedName(ls, org) ==
    IF ~NameTaken(ls, org) THEN org
    ELSE Suffixed(org, CHOOSE n \in 2..(Len(ls) + 2) :
                            /\ ~NameTaken(ls, Suffixed(org, n))
                            /\ \A m \in 2..(n - 1) : NameTaken(ls, Suffixed(org, m)))

\* C10 (as claimed): add_layers inserts the incoming layer under the name
\* ClaimedName gives it.
C10_SmallestSuffix ==
    [][op'.name = "add_layers"
       => sceneLayers' =
              LET l == op'.arg[1]
                  named == LayerSetItem(l, "name", ClaimedName(sceneLayers, LayerName(l)))
              IN  IF op'.arg[2] = NoIndex THEN Append(sceneLayers, named)
                  ELSE ListInsert(sceneLayers, op'.arg[2][1], named)]_vars

\* C29: drop_layer(name), when one held layer has the name, returns that
\* layer and removes it alone, the others keeping their order, so the scene
\* holds one layer less; when no held layer has the name, it raises the
\* ValueError that is the code's not-found error and leaves the layers as
\* they were.
C29_DropByName ==
    [][(op'.name = "drop_layer" /\ op'.by = "name")
       => LET named == LayersNamed(sceneLayers, op'.arg[1])
          IN  /\ Cardinality(named) = 1
                 => LET ix == CHOOSE i \in named : TRUE
                    IN  /\ op'.exc = None
                        /\ ret' = sceneLayers[ix]
                        /\ Len(sceneLayers') = Len(sceneLayers) - 1
                        /\ \A j \in DOMAIN sceneLayers' :
                               sceneLayers'[j] = sceneLayers[IF j < ix THEN j ELSE j + 1]
              /\ named = {}
                 => /\ op'.exc = "ValueError"
                    /\ sceneLayers' = sceneLayers]_vars

\* C29's case: drop_layer(name) has returned the layer of that name, and
\* the two layers that are left have other names.
C29_Witness ==
    /\ op.name = "drop_layer"
    /\ op.by = "name"
    /\ op.exc = None
    /\ Len(sceneLayers) = 2
    /\ ~NameTaken(sceneLayers, op.arg[1])
    /\ ret.state["name"] = op.arg[1]

(***************************************************************************)
(* Claims about BundleUpdates and the locks (Spec).                        *)
(***************************************************************************)
\* No layer the scene holds is locked.
NoLayerLocked == \A i \in DOMAIN localLayers : ~localLayers[i].lock

\* The viewer's document holds the scene's state and, in the scene's order,
\* its layers' states.
CarriesLocalState ==
    /\ \A k \in DOMAIN scene.state : DictGet(viewer.state, k) = scene.state[k]
    /\ viewer.layers = [i \in DOMAIN localLayers |-> localLayers[i].state]

\* C1 (as claimed): in the body of a with BundleUpdates(scene) statement no
\* write to a field of the scene, or of a linked layer the scene holds, makes
\* a viewer.set_state call; the exit whose push_state raises nothing makes
\* exactly one, and the document then holds the scene's and the layers'
\* states.
C1_OnePushOnExit ==
    /\ (ev.scoped /\ ev.op = "scene_setitem") => ev.writes = 0
    /\ (ev.scoped /\ ev.op = "layer_setitem" /\ localLayers[ev.target].linked)
           => ev.writes = 0
    /\ (ev.op = "exit" /\ ev.push = None) => (ev.writes = 1 /\ CarriesLocalState)

\* C2 (as claimed): when the body of the with statement raises, __exit__ has
\* called push_state (it wrote the document or raised), the scene and every
\* layer it holds are unlocked afterwards, and the caller gets the body's
\* exception.
C2_ExitAfterRaise ==
    (ev.op = "exit" /\ ev.body # None)
    => /\ ev.writes = 1 \/ ev.push # None
       /\ ~scene.lock
       /\ NoLayerLocked
       /\ ev.exc = ev.body

\* C3 (as claimed): when the push_state of __exit__ raises, the scene and
\* every layer it holds are unlocked when the exception reaches the caller.
C3_UnlockedAfterFailedPush ==
    (ev.op = "exit" /\ ev.push # None)
    => /\ ev.exc = ev.push
       /\ ~scene.lock
       /\ NoLayerLocked

\* The step is a push_state or pull_state call on a layer or scene whose
\* _lock is set; ignoring says whether a push_state(ignore_lock=True) counts.
LockedCall(ignoring) ==
    \/ /\ ev'.op \in {"layer_push", "layer_pull"}
       /\ localLayers[ev'.target].lock
    \/ /\ ev'.op \in {"scene_push", "scene_pull"}
             \cup (IF ignoring THEN {"scene_push_ignore_lock"} ELSE {})
       /\ scene.lock

\* The step raises nothing and leaves the document, the scene and its layers
\* as they are.
NoOp ==
    /\ ev'.exc = None
    /\ UNCHANGED <<viewer, scene, localLayers>>

\* C4 (as claimed): a push_state or pull_state call on a locked layer or
\* scene raises nothing and changes neither the document nor the local
\* state, and no viewer.set_state call is made by a push_state of a locked
\* layer or scene.
C4_LockedIsNoOp ==
    /\ [][LockedCall(TRUE) => NoOp]_vars
    /\ [](~ev.locked)

\* C4 (as amended): a pull_state call, or a push_state call without
\* ignore_lock=True, on a locked layer or scene raises nothing and changes
\* neither the document nor the local state; a locked scene or layer calls
\* viewer.set_state only in the scene's push_state(ignore_lock=True), which
\* is what BundleUpdates.__exit__ calls.
C4_LockedIsNoOpUnlessIgnored ==
    /\ [][LockedCall(FALSE) => NoOp]_vars
    /\ [](ev.locked => ev.op \in {"exit", "scene_push_ignore_lock"})

\* C4's case: in the body of the with statement push_state was called on a
\* locked, linked layer whose state differs from its record in the document,
\* so that a push would have changed the document.
C4_Witness ==
    /\ ev.op = "layer_push"
    /\ ev.scoped
    /\ localLayers[ev.target].lock
    /\ localLayers[ev.target].linked
    /\ \E i \in RemoteNamed(viewer, LayerName(localLayers[ev.target])) :
           viewer.layers[i] # DictUpdate(viewer.layers[i], localLayers[ev.target].state)

(***************************************************************************)
(* Claims about one layer (SpecLayer).                                     *)
(***************************************************************************)
\* The items that are Python strings.
StrItems == {"1", "2", "3"}

\* v is a list of strings.
IsListOfStr(v) == v.py = "list" /\ \A i \in DOMAIN v.items : v.items[i] \in StrItems

\* C11: in every state of a segmentation layer that was constructed with
\* segments given as an int, a string, a list or an array, or whose segments
\* were assigned afterwards, the stored segments are a list of strings.
C11_SegmentsAreStrings ==
    (IsInstance(theLayer.type, "SegmentationLayer") /\ "segments" \in DOMAIN theLayer.state)
        => IsListOfStr(theLayer.state["segments"])

\* The properties break one of the three lists of the class.
SchemaViolated(c, props) ==
    \/ c.must_have \ DOMAIN props # {}
    \/ c.must_not_have \cap DOMAIN props # {}
    \/ c.must_only_have # {} /\ (DOMAIN props) \ c.must_only_have # {}

C13_NameAndSource ==
    theLayer.type \in SourcedTypes => {"name", "source"} \subseteq DOMAIN theLayer.state

(***************************************************************************)
(* Claims about the layers of a LocalScene and the viewer's document       *)
(* (SpecSync).                                                             *)
(***************************************************************************)
\* The number of records of the document v whose name is the name of l.
Matches(l, v) ==
    Cardinality({j \in DOMAIN v.layers : DictGet(v.layers[j], "name") = l.state["name"]})

\* The step is the call op on held layer i, which is linked and not locked.
SyncCall(i, operation) ==
    /\ ev'.op = operation
    /\ ev'.target = i
    /\ i \in DOMAIN localLayers
    /\ localLayers[i].linked
    /\ ~localLayers[i].lock

\* C14: push_state and pull_state of a linked layer that is not locked raise
\* ValueError when no record of the document has the layer's name ("not
\* found") and when more than one has it ("duplicated"), and then leave the
\* document and the layer's state as they were.
C14_FailedPushOrPull ==
    [][\A i \in 1..MaxLocal :
          ((SyncCall(i, "layer_push") \/ SyncCall(i, "layer_pull"))
             /\ Matches(localLayers[i], viewer) # 1)
          => (ev'.exc = "ValueError" /\ viewer' = viewer /\ localLayers' = localLayers)]_vars

\* A pull by a linked layer has failed for two records of its name.
C14_Witness ==
    /\ ev.op = "layer_pull"
    /\ ev.exc = "ValueError"
    /\ ev.target \in DOMAIN localLayers
    /\ localLayers[ev.target].linked
    /\ Matches(localLayers[ev.target], viewer) = 2

\* The index of the one record of the document v with the name of l.
Matched(l, v) ==
    CHOOSE j \in DOMAIN v.layers : DictGet(v.layers[j], "name") = l.state["name"]

\* The step is a call on held layer i, linked before and after, whose
\* push_state went through: an explicit push_state(), or the one a write
\* to the layer calls.
PushedBy(i) ==
    /\ ev'.op \in {"layer_push", "layer_setitem"}
    /\ ev'.target = i
    /\ ev'.exc = None
    /\ ev'.writes = 1
    /\ i \in DOMAIN localLayers
    /\ localLayers[i].linked

\* The step changes, of the document, at most record j, and of record j it
\* sets the keys ks to the values of state and keeps every other key.
OnlyRecordChanged(j, ks, state) ==
    /\ viewer'.state = viewer.state
    /\ DOMAIN viewer'.layers = DOMAIN viewer.layers
    /\ \A o \in DOMAIN viewer.layers : o # j => viewer'.layers[o] = viewer.layers[o]
    /\ DOMAIN viewer'.layers[j] = (DOMAIN viewer.layers[j]) \cup ks
    /\ \A k \in ks : viewer'.layers[j][k] = state[k]
    /\ \A k \in (DOMAIN viewer.layers[j]) \ ks : viewer'.layers[j][k] = viewer.layers[j][k]

\* C15 as stated: a successful push by a linked layer changes only the
\* record with the layer's name: every key of the layer's local state takes
\* the local value, the record's other keys keep their value, and every
\* other record and every scene-level key of the document is unchanged.
C15_PushFrame ==
    [][\A i \in 1..MaxLocal :
          PushedBy(i)
          => LET l == localLayers'[i]
             IN  OnlyRecordChanged(Matched(l, viewer), DOMAIN l.state, l.state)]_vars

\* The keys of its state a layer pushes: all, but for a LocalSkeletonLayer
\* all except source.
KeysPushed(l) ==
    IF l.type = "LocalSkeletonLayer" THEN (DOMAIN l.state) \ {"source"} ELSE DOMAIN l.state

\* C15, amended: as stated, except that the push of a LocalSkeletonLayer
\* leaves the key source out: the record keeps its remote source.
C15_PushFrameButSkeletonSource ==
    [][\A i \in 1..MaxLocal :
          PushedBy(i)
          => LET l == localLayers'[i]
             IN  OnlyRecordChanged(Matched(l, viewer), KeysPushed(l), l.state)]_vars

\* A LocalSkeletonLayer has pushed a state whose source is not the source
\* of its record, onto a record that holds a key the layer does not.
C15_Witness ==
    /\ ev.op = "layer_push"
    /\ ev.exc = None
    /\ ev.writes = 1
    /\ ev.target \in DOMAIN localLayers
    /\ LET l == localLayers[ev.target]
       IN  /\ l.type = "LocalSkeletonLayer"
           /\ l.linked
           /\ Matches(l, viewer) = 1
           /\ viewer.layers[Matched(l, viewer)]["source"] # l.state["source"]
           /\ "opacity" \in DOMAIN viewer.layers[Matched(l, viewer)]
           /\ "opacity" \notin DOMAIN l.state

\* C16: a successful pull by a linked layer that is not locked leaves the
\* document alone and makes the layer's state the record with the layer's
\* name, keys the layer alone held being gone; the new state carries the
\* push_state callback, so that a write to the layer that follows the pull
\* calls push_state: it sets the document or raises.
C16_PullReplacesAndWraps ==
    [][\A i \in 1..MaxLocal :
          /\ (SyncCall(i, "layer_pull") /\ ev'.exc = None)
                 => /\ localLayers'[i].state
                           = viewer.layers[Matched(localLayers[i], viewer)]
                    /\ localLayers'[i].wrapped
                    /\ viewer' = viewer
          /\ (ev.op = "layer_pull" /\ ev.exc = None /\ ev.target = i
                 /\ SyncCall(i, "layer_setitem"))
                 => (ev'.writes = 1 \/ ev'.exc # None)]_vars

\* A linked image layer has pulled a record without the keys type and
\* blend, which its own state held.
C16_Witness ==
    /\ ev.op = "layer_pull"
    /\ ev.exc = None
    /\ ev.target \in DOMAIN localLayers
    /\ LET l == localLayers[ev.target]
       IN  /\ l.type = "ImageLayer"
           /\ l.linked
           /\ l.wrapped
           /\ "blend" \notin DOMAIN l.state
           /\ Matches(l, viewer) = 1
           /\ l.state = viewer.layers[Matched(l, viewer)]

\* C17: link_viewer on a layer whose name a record of the viewer's document
\* has raises ValueError, stores no viewer on the layer, leaves its state
\* without callback and leaves the document as it was.
C17_LinkConflict ==
    [][(ev'.op = "add_layers" /\ Matches(localLayers'[ev'.target], viewer) > 0)
          => LET l == localLayers'[ev'.target]
             IN  /\ ev'.exc = "ValueError"
                 /\ ev'.writes = 0
                 /\ ~l.linked
                 /\ ~l.wrapped
                 /\ viewer' = viewer]_vars

\* add_layers has ended in the ValueError of link_viewer: the viewer holds
\* a record with the name of the layer, and the layer is not linked.
C17_Witness ==
    /\ ev.op = "add_layers"
    /\ ev.exc = "ValueError"
    /\ ev.target \in DOMAIN localLayers
    /\ ~localLayers[ev.target].linked
    /\ Matches(localLayers[ev.target], viewer) > 0

\* C18: after LocalScene.drop_layer the scene holds no layer and the
\* document no record of the dropped layer's name, and the dropped layer
\* holds no viewer, so that a later write to it calls no push_state: it
\* neither sets the document nor raises.
C18_DroppedIsDetached ==
    /\ (ev.op = "drop_layer" /\ ev.exc = None)
           => /\ Matches(dropped[1], viewer) = 0
              /\ ~NameTaken(localLayers, LayerName(dropped[1]))
    /\ dropped # <<>> => ~dropped[1].linked
    /\ ev.op = "dropped_setitem" => (ev.writes = 0 /\ ev.exc = None)

(***************************************************************************)
(* Claims about copies (SpecCopy).                                         *)
(***************************************************************************)
\* The callbacks the state of the object o and of its layers carry.
CallbacksOf(o) ==
    (Ran(o.callback)) \cup UNION {Ran(o.layers[i].callback) : i \in DOMAIN o.layers}

\* C19: a deep copy of a layer or scene has the state and the layer states
\* of the original, holds no viewer and shares no callback with the
\* original; neither the copying nor a write to the copy or to a layer of
\* the copy changes the original's state, sets the original's _stale or
\* pushes to the original's viewer.
C19_CopyIsDetached ==
    /\ [](copyEv.op = "deepcopy"
             => /\ twin.state = orig.state
                /\ \A i \in DOMAIN orig.layers : twin.layers[i].state = orig.layers[i].state)
    /\ [](twin # NoObject
             => /\ twin.viewer = None
                /\ CallbacksOf(twin) \cap CallbacksOf(orig) = {})
    /\ [][copyEv'.op \in {"deepcopy", "twin_setitem", "twin_layer_setitem"}
             => /\ orig'.state = orig.state
                /\ "orig" \notin copyEv'.staled
                /\ "v1" \notin copyEv'.pushed]_vars

(***************************************************************************)
(* Claims about nested bulk-update scopes (Spec).                          *)
(***************************************************************************)
\* The last call ended an inner with statement: the program is back in the
\* body of the with statement around it.
InnerExited == ev.op = "exit" /\ depth > 0

\* C20: the bulk-update lock is reentrant.  When an inner with statement has
\* ended and the program is back in the body of the outer one, the scene and
\* every held layer are still locked, and a field write made next makes no
\* remote write.
C20_ReentrantLock ==
    /\ [](InnerExited =>
              /\ scene.lock
              /\ \A i \in DOMAIN localLayers : localLayers[i].lock)
    /\ [][(InnerExited /\ ev'.op \in {"layer_setitem", "scene_setitem"})
              => ev'.writes = 0]_vars

(***************************************************************************)
(* Claims about a second writer on the viewer's document (SpecSync).       *)
(***************************************************************************)
\* C21: conflicting writes resolve last-write-wins per field.  When the
\* other writer has just set field B of a layer's record and the next call
\* is a write of another field A to that layer, pushed to the viewer, the
\* record then holds the other writer's value of B and the local value of A.
C21_LastWriteWinsPerField ==
    [][\A i \in DOMAIN localLayers :
          (/\ ev.op = "remote"
           /\ ev'.op = "layer_setitem"
           /\ PushedBy(i)
           /\ ev'.key # ev.key
           /\ Matches(localLayers'[i], viewer) = 1
           /\ Matched(localLayers'[i], viewer) = ev.target)
          => /\ DictGet(viewer'.layers[ev.target], ev.key)
                    = DictGet(viewer.layers[ev.target], ev.key)
             /\ DictGet(viewer'.layers[ev.target], ev'.key)
                    = DictGet(localLayers'[i].state, ev'.key)]_vars

(***************************************************************************)
(* Claims about LocalScene(auto_sync=False) (Spec).                        *)
(***************************************************************************)
\* The calls that change the scene: its state, its layer list, or the state
\* of a layer it holds.
SceneChanges == {"scene_setitem", "layer_setitem", "add_layers", "drop_layer"}

\* C22: for a LocalScene created with auto_sync=False no change to the scene,
\* its layer list or a layer it holds makes a viewer.set_state call; only an
\* explicit push_state writes to the viewer.
C22_NoWriteUntilPush ==
    (~scene.auto_sync /\ ev.op \in SceneChanges) => ev.writes = 0

(***************************************************************************)
(* Claims about the observable containers (SpecObs).                       *)
(***************************************************************************)
\* The type of the container the last call was made on.
CalledOn == IF obsEv.target = 0 THEN box.py ELSE box.items[obsEv.target].py

\* The last call is one of the calls CallBackDict and CallBackList override,
\* and it raised nothing.
OverriddenCall ==
    /\ obsEv.exc = None
    /\ \/ CalledOn = "dict" /\ obsEv.op \in {"setitem", "update", "pop", "clear"}
       \/ /\ CalledOn = "list"
          /\ obsEv.op \in {"setitem", "append", "extend", "insert", "remove",
                            "pop", "sort"}

\* C23: each mutating call on an observable container that the classes
\* override runs the callback exactly once, also when the value it inserts
\* is a nested container that gets wrapped; add_on_change_callback itself
\* runs the callback zero times.
C23_OneCallbackPerCall ==
    /\ OverriddenCall => obsEv.fired = 1
    /\ obsEv.op = "round_trip" => obsEv.fired = 0

\* A call inserted a dict that holds a list, and both were wrapped.
C23_Witness ==
    /\ OverriddenCall
    /\ obsEv.op = "setitem"
    /\ obsEv.arg.py = "dict"
    /\ obsEv.fired = 1
    /\ \E i \in DOMAIN Target(obsEv.target).items :
           LET put == Target(obsEv.target).items[i]
           IN  /\ put.py = "dict"
               /\ put.cb = "cb"
               /\ \E j \in DOMAIN put.items :
                      put.items[j].py = "list" /\ put.items[j].cb = "cb"

\* C24: del m[k] on an observable mapping, del l[i] on an observable
\* sequence and l.clear() on an observable sequence each run the callback,
\* on the wrapped structure itself and on a container nested in it.
C24_DeleteRunsCallback ==
    (/\ obsEv.exc = None
     /\ \/ obsEv.op = "delitem"
        \/ obsEv.op = "clear" /\ CalledOn = "list")
    => obsEv.fired >= 1

RECURSIVE NoObservable(_)
\* Neither x nor anything in it is a CallBackDict or a CallBackList.
NoObservable(x) ==
    /\ x.cb = ""
    /\ \A i \in DOMAIN x.items : NoObservable(x.items[i])

\* C25: remove_callback(add_on_change_callback(x, cb)) returns a value equal
\* to x that holds no observable container at any depth, for every nested
\* structure x.
C25_RoundTrip ==
    obsEv.op = "round_trip"
    => /\ obsEv.exc = None
       /\ back = given
       /\ NoObservable(back)

(***************************************************************************)
(* Claims about the stale flag of a Scene (SpecCopy).                      *)
(***************************************************************************)
\* C26: whenever the _stale flag of a Scene is false, the URL it cached is
\* the URL make_url would build from its state and its layers now.
C26_FreshUrlWhenNotStale ==
    (orig.kind = "Scene" /\ ~orig.stale) => orig.url = UrlOf(orig)

(***************************************************************************)
(* Claims about from_string, make_url, to_json and parse_layers            *)
(* (SpecParse).                                                            *)
(***************************************************************************)
\* from_string returned a scene whose as_dict() is that of the scene built.
SameAsBuilt == parsed.exc = None /\ AsDict(parsed.scene) = AsDict(built)

\* C27: for a scene with a layer of each supported class, whatever strings
\* its fields hold, from_string of its URL gives a scene whose as_dict()
\* equals its own.
C27_UrlRoundTrip ==
    (parseEv.op = "from_string" /\ parseEv.form = "url" /\ built.layers # <<>>)
    => SameAsBuilt

\* The replacements of to_json change nothing in the JSON text of sc.
ReplacementsIdle(sc) == ToJson(sc) = MapDoc(AsDict(sc), JsonDumps)

\* C28: from_string builds the scene a document describes when it is given
\* the text to_json produced, as it does when it is given the URL.
C28_AcceptsJsonText ==
    (/\ parseEv.op = "from_string"
     /\ parseEv.form \in {"url", "text"}
     /\ ReplacementsIdle(built))
    => SameAsBuilt

\* The records of the last parse_layers call that the flags keep, and
\* those of them that have a class.
KeptRecords ==
    {i \in DOMAIN parseEv.records :
        ~(Archived(parseEv.records[i]) /\ parseEv.skip_archived)}

UnknownKept == {i \in KeptRecords : TypeOf(parseEv.records[i]) \notin DOMAIN LayerFactory}

\* C30: parse_layers raises when a record it does not skip as archived has
\* an unknown type and skip_unknown is not set; otherwise it returns one
\* layer for each record that is neither skipped as archived nor of unknown
\* type.  This holds for one record and for a list of records.
C30_FlagsTakeEffect ==
    parseEv.op = "parse_layers"
    => /\ (UnknownKept # {} /\ ~parseEv.skip_unknown) => parsed.exc # None
       /\ (/\ UnknownKept = {} \/ parseEv.skip_unknown
           /\ \A i \in KeptRecords \ UnknownKept : "source" \in DOMAIN parseEv.records[i])
          => /\ parsed.exc = None
             /\ Len(parsed.scene.layers) = Cardinality(KeptRecords \ UnknownKept)

C32_SameNames ==
    {LayerName(localLayers[i]) : i \in DOMAIN localLayers}
        = {viewer.layers[i]["name"] : i \in DOMAIN viewer.layers}

(***************************************************************************)
(* Further claims about BundleUpdates and the locks (Spec).                *)
(***************************************************************************)
\* C33: when entering a with BundleUpdates(scene) statement fails, outside
\* any other such statement, neither the scene nor a layer it holds is left
\* locked.
C33_FailedEnterLeavesNoLock ==
    (ev.op = "enter" /\ ev.exc # None /\ depth = 0)
    => (~scene.lock /\ NoLayerLocked)

\* C34: after the outermost with statement has ended and its push went
\* through, no layer the scene holds is locked, and neither is the layer
\* that drop_layer took out of the scene.
C34_ExitUnlocksDropped ==
    (ev.op = "exit" /\ ev.push = None /\ depth = 0)
    => /\ NoLayerLocked
       /\ \A k \in DOMAIN dropped : ~dropped[k].lock

(***************************************************************************)
(* Further claims about the layers of a LocalScene and the viewer's        *)
(* document (SpecSync).                                                    *)
(***************************************************************************)
\* The last call was a write to a key of held layer i or to a container
\* under a key of it, it raised nothing, and the layer is linked and not
\* locked.
Written(i) ==
    /\ ev.op \in {"layer_setitem", "layer_nested_setitem"}
    /\ ev.exc = None
    /\ ev.target = i
    /\ i \in DOMAIN localLayers
    /\ localLayers[i].linked
    /\ ~localLayers[i].lock

\* One record of the document has the name of layer l and holds the value
\* of l's state for every key of ks.
RecordHolds(l, ks) ==
    /\ Matches(l, viewer) = 1
    /\ \A k \in ks :
           /\ k \in DOMAIN viewer.layers[Matched(l, viewer)]
           /\ viewer.layers[Matched(l, viewer)][k] = l.state[k]

\* C35 as stated: after a write to a linked layer that is not locked has
\* returned, the record with the layer's name holds the layer's value for
\* every key of the layer's state.
C35_RecordHoldsState ==
    \A i \in 1..MaxLocal :
        Written(i) => RecordHolds(localLayers[i], DOMAIN localLayers[i].state)

\* C35, amended: as stated, except for the key source of a
\* LocalSkeletonLayer, which its push leaves out.
C35_RecordHoldsPushedKeys ==
    \A i \in 1..MaxLocal :
        Written(i) => RecordHolds(localLayers[i], KeysPushed(localLayers[i]))

\* C35's case: a write into the container under shaderControls of a linked
\* layer has returned, and the layer holds a blend and a name it was
\* written before.
C35_Witness ==
    /\ Written(1)
    /\ ev.op = "layer_nested_setitem"
    /\ ev.writes = 1
    /\ localLayers[1].state["shaderControls"] = [x |-> "1"]
    /\ localLayers[1].state["blend"] = "additive"

(***************************************************************************)
(* Claims about pulls and about keys removed from a state (Spec).          *)
(***************************************************************************)
\* C36: a pull_state call of the scene or of a layer makes no set_state
\* call on the viewer and leaves the viewer's document as it was.
C36_PullNeverWrites ==
    [][ev'.op \in {"scene_pull", "layer_pull"}
          => (ev'.writes = 0 /\ viewer' = viewer)]_vars

\* C37: a key taken out of the state of a linked, unlocked layer by
\* state.pop is absent from the state the next read pulls, the layer being
\* the only writer in between.
C37_PoppedStaysAbsent ==
    [][(/\ ev.op = "layer_state_pop" /\ ev.exc = None /\ ev.writes = 1
        /\ ev'.op = "layer_pull" /\ ev'.exc = None /\ ev'.target = ev.target)
          => ev.key \notin DOMAIN localLayers'[ev.target].state]_vars

(***************************************************************************)
(* Claims about the observable containers (SpecObs).                       *)
(***************************************************************************)
\* C38: pop on a CallBackDict or a CallBackList that raises nothing returns
\* an element the container held before the call, as dict.pop and list.pop
\* do.
C38_PopReturnsRemoved ==
    [][(obsEv'.op = "pop" /\ obsEv'.exc = None)
          => LET c == IF obsEv'.target = 0 THEN box ELSE box.items[obsEv'.target]
             IN  \E i \in DOMAIN c.items : obsEv'.ret = c.items[i]]_vars

RECURSIVE Observed(_)
\* Every dict and every list in x, x included, carries the callback cb.
Observed(x) ==
    /\ IsContainer(x) => x.cb = "cb"
    /\ \A i \in DOMAIN x.items : Observed(x.items[i])

\* C39: after a key or index assignment, update, append, insert or extend
\* that raises nothing, every dict and list the container holds carries the
\* container's callback.
C39_InsertedIsWrapped ==
    (obsEv.op \in {"setitem", "update", "append", "insert", "extend"} /\ obsEv.exc = None)
        => Observed(box)

(***************************************************************************)
(* Claims about layer | layer (SpecLayer).                                 *)
(***************************************************************************)
\* C40: for two segmentation layers of one class and one source, the
\* segments of a | b hold the text of every segment ID of a and of b and
\* no text twice.
C40_UnionOnce ==
    (/\ layerEv.op = "or" /\ layerEv.exc = None
     /\ IsInstance(theLayer.type, "SegmentationLayer"))
        => LET segs == layerEv.x.state["segments"].items
               ids == SeqToSet(theLayer.state["segments"].items)
                          \cup SeqToSet(layerEv.other.state["segments"].items)
           IN  /\ SeqToSet(segs) = {Str(e) : e \in ids}
               /\ \A i, j \in DOMAIN segs : segs[i] = segs[j] => i = j
====
